---- MODULE Spec2Model ----
(***************************************************************************)
(* LLM Legal Council: the bounded concurrent dispatcher                    *)
(* (withConcurrencyLimit) and the deliberation controller                  *)
(* (LegalCouncilOrchestrator.deliberate) of council/orchestrator.ts, with  *)
(* the parts of council/audit.ts the controller calls.                     *)
(*                                                                         *)
(* The runtime is a single-threaded event loop: an action is one           *)
(* synchronous run of code between two suspension points (await).          *)
(***************************************************************************)
EXTENDS Integers, Sequences, FiniteSets, TLC

\* ------------------------------------------------------------------ bounds

\* Largest task list handed to the dispatcher when it is studied on its own.
MaxTasks == 3

\* Largest configured concurrency limit.
MaxLimit == 2

\* Largest number of configured council models.
MaxModels == 3

\* Largest configured minimumSeats.
MaxSeats == 2

\* Largest council when ranking aggregation and chairman selection are
\* studied on their own.
MaxRanked == 4

\* ------------------------------------------------------------------ state

VARIABLES
    limit,       \* the concurrency limit (config.concurrencyLimit)
    task,        \* dispatcher: per task index, its promise's state and start count
    disp         \* dispatcher: results array, cursor, workers, own promise state

wclVars == <<limit, task, disp>>

VARIABLES
    config,             \* this.config: councilModels, and minimumSeats and
                        \* chairmanOverrideModel once deliberate() has read them
    sessionIdInScope,   \* whether the free identifier sessionId of runStage1 resolves
    pc,                 \* the controller state of deliberate()
    minQuorum,          \* the local minQuorum of deliberate(), 0 until computed
    errors,             \* the errors array of the stage that is running
    stage1,             \* Stage1Result, once runStage1 has returned
    stage2,             \* Stage2Result, once runStage2 has returned
    stage3,             \* Stage3Result, once runStage3WithChairman has returned
    chairmanSelection,  \* the ChairmanSelectionResult, once computed
    calls,              \* every model call dispatched so far, as <<stage, modelId>>
    outcome,            \* how deliberate() settled: returned value or thrown error
    onProgress,         \* this.onProgress: "undefined", or the type of the events
                        \* on which the installed callback throws
    stage1Metrics       \* AuditCollector.stage1Metrics, in insertion order

ctlVars == <<config, sessionIdInScope, pc, minQuorum, errors, stage1, stage2, stage3,
             chairmanSelection, calls, outcome, onProgress, stage1Metrics>>

VARIABLES
    args,   \* the arguments of a function that is studied on its own
    ret     \* what that function returned, once it was called

fnVars == <<args, ret>>

vars == <<wclVars, ctlVars, fnVars>>

\* ------------------------------------------------------- withConcurrencyLimit

\* The null sentinel of a result slot.
Null == [kind |-> "null"]

Min(a, b) == IF a < b THEN a ELSE b

\* COUNCIL_CONCURRENCY_LIMIT is parsed to a positive integer (default 3).
ConcurrencyLimits == 1..MaxLimit

\* results = new Array(tasks.length).fill(null): indices 0..n-1.
NewResults(n) == [i \in 0..(n - 1) |-> Null]

\* JavaScript array assignment arr[i] = v (an index past the end extends it).
ArraySet(arr, i, v) == [j \in (DOMAIN arr) \cup {i} |-> IF j = i THEN v ELSE arr[j]]

\* Array(Math.min(limit, tasks.length)): the number of worker loops spawned.
WorkerCountUnbounded(lim, n) == n
WorkerCount(lim, n) == Min(lim, n)

\* The loop condition of runNext: while (currentIndex < tasks.length).
HasNextSkipsLast(cur, n) == cur < n - 1
HasNext(cur, n) == cur < n

\* results[index] = ...: the slot a worker writes is the index it claimed.
SlotAtCursor(index, cur) == cur
ResultSlot(index, cur) == index

\* try { results[index] = await tasks[index]() } catch { results[index] = null }:
\* what the worker stores once the awaited task promise t has settled.
SettledValue(t) == IF t.st = "resolved" THEN t.val ELSE Null

\* The catch block swallows the rejection: the worker loop goes on.
WorkerRethrows(t) == IF t.st = "rejected" THEN "reject" ELSE "continue"
WorkerAfterSettle(t) == "continue"

\* A worker is <<"awaiting", index>>, <<"done", _>> or <<"rejected", _>>.
Awaiting(index) == [st |-> "awaiting", index |-> index]
WorkerDone == [st |-> "done", index |-> 0]
WorkerRejected == [st |-> "rejected", index |-> 0]

\* One pass of the head of runNext's loop for worker w, on dispatcher record d:
\* either claim the next index (index = currentIndex++) and await that task,
\* or leave the loop.
LoopHead(d, w, n) ==
    IF HasNext(d.currentIndex, n)
    THEN [d EXCEPT !.workers[w] = Awaiting(d.currentIndex),
                   !.currentIndex = d.currentIndex + 1]
    ELSE [d EXCEPT !.workers[w] = WorkerDone]

\* workers = Array(min(limit, n)).fill(null).map(() => runNext()): each runNext()
\* runs synchronously up to its first await, worker 1 first.
RECURSIVE SpawnFrom(_, _, _, _)
SpawnFrom(d, w, count, n) ==
    IF w > count THEN d ELSE SpawnFrom(LoopHead(d, w, n), w + 1, count, n)

Spawn(lim, n) ==
    LET count == WorkerCount(lim, n)
        d0 == [results |-> NewResults(n),
               currentIndex |-> 0,
               workers |-> [w \in 1..count |-> WorkerDone],
               st |-> "running"]
    IN  SpawnFrom(d0, 1, count, n)

\* The task indices whose function a dispatcher record has just invoked:
\* those awaited in d that were not awaited before.
AwaitedIn(d) == {d.workers[w].index : w \in {v \in DOMAIN d.workers : d.workers[v].st = "awaiting"}}

\* Worker w resumes after its awaited task t settled: store, then loop.
Resume(d, w, t, n) ==
    LET index == d.workers[w].index
        stored == [d EXCEPT !.results = ArraySet(d.results, ResultSlot(index, d.currentIndex), SettledValue(t))]
    IN  IF WorkerAfterSettle(t) = "continue"
        THEN LoopHead(stored, w, n)
        ELSE [d EXCEPT !.workers[w] = WorkerRejected]

Idle == [results |-> <<>>, currentIndex |-> 0, workers |-> <<>>, st |-> "idle"]

Pending == [st |-> "pending", starts |-> 0, val |-> Null]

\* tasks[index]() was called for every index in started.
Invoke(tk, started) ==
    [i \in DOMAIN tk |-> IF i \in started
                         THEN [tk[i] EXCEPT !.st = "running", !.starts = tk[i].starts + 1]
                         ELSE tk[i]]

NumTasks == Cardinality(DOMAIN task)

\* ---- the dispatcher on its own: K generic tasks, task i resolving to value i

TaskValue(i) == [kind |-> "value", of |-> i]

\* No deliberation is under way while the dispatcher is studied on its own.
NoDeliberation ==
    /\ config = [councilModels |-> <<>>, minimumSeats |-> "unread", chairmanOverrideModel |-> "unread"]
    /\ sessionIdInScope = FALSE
    /\ pc = "init"
    /\ minQuorum = 0
    /\ errors = <<>>
    /\ stage1 = Null /\ stage2 = Null /\ stage3 = Null
    /\ chairmanSelection = Null
    /\ calls = {}
    /\ outcome = [kind |-> "pending"]
    /\ onProgress = "undefined"
    /\ stage1Metrics = <<>>

\* No function is studied on its own.
NoFunctionCall == args = Null /\ ret = Null

InitWCL ==
    /\ limit \in ConcurrencyLimits
    /\ \E k \in 0..MaxTasks : task = [i \in 0..(k - 1) |-> Pending]
    /\ disp = Idle
    /\ NoDeliberation
    /\ NoFunctionCall

\* withConcurrencyLimit(tasks, limit) is called: the results array is made and
\* the workers are spawned, each invoking the task it claimed.
WclCall ==
    /\ disp.st = "idle"
    /\ disp' = Spawn(limit, NumTasks)
    /\ task' = Invoke(task, AwaitedIn(disp'))
    /\ UNCHANGED limit
    /\ UNCHANGED <<ctlVars, fnVars>>

\* The promise of a started task resolves with the task's own value.
TaskResolves(i) ==
    /\ task[i].st = "running"
    /\ task' = [task EXCEPT ![i].st = "resolved", ![i].val = TaskValue(i)]
    /\ UNCHANGED <<limit, disp>>
    /\ UNCHANGED <<ctlVars, fnVars>>

\* The promise of a started task rejects (the task throws).
TaskRejects(i) ==
    /\ task[i].st = "running"
    /\ task' = [task EXCEPT ![i].st = "rejected"]
    /\ UNCHANGED <<limit, disp>>
    /\ UNCHANGED <<ctlVars, fnVars>>

\* The newly claimed index of worker w, if it claimed one.
NewlyAwaited(d, w) == IF d.workers[w].st = "awaiting" THEN {d.workers[w].index} ELSE {}

\* A worker whose awaited task has settled resumes: it stores the outcome and
\* takes the next pass of its loop.
WorkerResumes(w) ==
    /\ disp.st \in {"running", "rejected"}
    /\ disp.workers[w].st = "awaiting"
    /\ task[disp.workers[w].index].st \in {"resolved", "rejected"}
    /\ disp' = Resume(disp, w, task[disp.workers[w].index], NumTasks)
    /\ task' = Invoke(task, NewlyAwaited(disp', w))
    /\ UNCHANGED limit
    /\ UNCHANGED <<ctlVars, fnVars>>

AllWorkersDone(d) == \A w \in DOMAIN d.workers : d.workers[w].st = "done"
SomeWorkerRejected(d) == \E w \in DOMAIN d.workers : d.workers[w].st = "rejected"

\* await Promise.all(workers); return results.
PromiseAllSettles ==
    /\ disp.st = "running"
    /\ SomeWorkerRejected(disp) \/ AllWorkersDone(disp)
    /\ disp' = [disp EXCEPT !.st = IF SomeWorkerRejected(disp) THEN "rejected" ELSE "resolved"]
    /\ UNCHANGED <<limit, task>>
    /\ UNCHANGED <<ctlVars, fnVars>>

NextWCL ==
    \/ WclCall
    \/ \E i \in DOMAIN task : TaskResolves(i)
    \/ \E i \in DOMAIN task : TaskRejects(i)
    \/ \E w \in DOMAIN disp.workers : WorkerResumes(w)
    \/ PromiseAllSettles

SpecWCL == InitWCL /\ [][NextWCL]_vars

\* Every started task eventually settles, and the event loop runs every
\* continuation that is ready.
FairSpecWCL ==
    /\ SpecWCL
    /\ WF_vars(WclCall)
    /\ \A i \in 0..(MaxTasks - 1) : WF_vars(i \in DOMAIN task /\ (TaskResolves(i) \/ TaskRejects(i)))
    /\ \A w \in 1..MaxLimit : WF_vars(w \in DOMAIN disp.workers /\ WorkerResumes(w))
    /\ WF_vars(PromiseAllSettles)

InFlight == {i \in DOMAIN task : task[i].st = "running"}

Settled(i) == task[i].st \in {"resolved", "rejected"}

\* The outcome of task i as the caller is to see it in slot i.
OutcomeOf(i) == IF task[i].st = "resolved" THEN TaskValue(i) ELSE Null

\* ------------------------------------------------ the deliberation controller

DEFAULT_MINIMUM_QUORUM == 2

\* Identifiers the environment can configure as COUNCIL_MODEL_1, _2, ...
ModelIds == <<"m1", "m2", "m3", "m4", "m5">>

\* String.fromCharCode(65 + index).
Letters == <<"A", "B", "C", "D", "E", "F", "G", "H", "I", "J">>

\* A chairman override naming a model that is not a council member.
Outsider == "outsider"

\* At least 2 council models are configured. minimumSeats and
\* chairmanOverrideModel are each read once by deliberate(); the model draws
\* their value where it is read and keeps it in config from then on.
Configs ==
    {[councilModels |-> SubSeq(ModelIds, 1, n), minimumSeats |-> "unread",
      chairmanOverrideModel |-> "unread"] : n \in 2..MaxModels}

\* The values of config.minimumSeats: 0 stands for every falsy value.
SeatSettings == 0..MaxSeats

\* The values of config.chairmanOverrideModel: undefined, a council member,
\* or a model that is not on the council.
OverrideSettings == {"undefined", ModelIds[2], Outsider}

\* assignLabels: member index -> {modelId, sessionLabel}, indexed as the task list.
assignLabelsWrapping(modelIds) ==
    [i \in 0..(Len(modelIds) - 1) |-> [modelId |-> modelIds[i + 1], sessionLabel |-> Letters[(i % 2) + 1]]]
assignLabels(modelIds) ==
    [i \in 0..(Len(modelIds) - 1) |-> [modelId |-> modelIds[i + 1], sessionLabel |-> Letters[i + 1]]]

councilMembers == assignLabels(config.councilModels)

\* const minQuorum = this.config.minimumSeats || DEFAULT_MINIMUM_QUORUM.
MinQuorumIgnoresConfig(seats) == DEFAULT_MINIMUM_QUORUM
MinQuorumOneMore(seats) == (IF seats = 0 THEN DEFAULT_MINIMUM_QUORUM ELSE seats) + 1
MinQuorum(seats) == IF seats = 0 THEN DEFAULT_MINIMUM_QUORUM ELSE seats

StageError(stage, modelId, message, recoverable) ==
    [stage |-> stage, modelId |-> modelId, message |-> message, recoverable |-> recoverable]

\* ---- Stage 1

\* The items a model may put in thresholdIssues: a schema-shaped object
\* {issue: string, status}, a bare string, null, or an object whose issue is a number.
IssueObject == "object"
IssueText == "text"
IssueNull == "null"
IssueNumber == "numberIssue"

\* The JSON a member's agent loop ends with (the fields the controller reads).
Stage1Jsons ==
    {[confidence |-> "high", thresholdIssues |-> [isArray |-> TRUE, items |-> <<IssueObject>>]],
     [confidence |-> "missing", thresholdIssues |-> [isArray |-> TRUE, items |-> <<IssueText>>]],
     [confidence |-> "low", thresholdIssues |-> [isArray |-> TRUE, items |-> <<IssueNull>>]]}

\* What runAgentLoop plus JSON extraction give: a parsed object, or a throw
\* (time-out, provider error, too many turns, no JSON in the final text).
Stage1Responses == {[kind |-> "throw"]} \cup {[kind |-> "json", json |-> j] : j \in Stage1Jsons}

\* Stage1AnalysisSchema.safeParse(finalJson).success.
SchemaValid1(json) ==
    /\ json.confidence \in {"low", "medium", "high"}
    /\ json.thresholdIssues.isArray
    /\ \A k \in DOMAIN json.thresholdIssues.items : json.thresholdIssues.items[k] = IssueObject

\* The IndividualAnalysis built from a parsed response.
Analysis(member, json) ==
    [kind |-> "analysis",
     label |-> member.sessionLabel,
     confidence |-> IF SchemaValid1(json) THEN json.confidence
                    ELSE IF json.confidence = "missing" THEN "medium" ELSE json.confidence,
     modelId |-> member.modelId,
     structured |-> json]

\* The types of a ProgressEvent.
EventTypes == {"start", "model-start", "model-complete", "model-error", "complete"}

\* emitProgress(event): if (this.onProgress) this.onProgress(event), with no
\* try around the call. No callback, or one that returns, leaves the caller
\* going; the callbacks studied otherwise throw on every event of one type.
EmitThrows(type) == onProgress = type

\* deliberate() rejected with what the callback threw.
CallbackError(from) == [kind |-> "thrown", error |-> "ProgressCallbackError", from |-> from]

\* The catch block of a stage's task: the model-error event is emitted before
\* errors.push, so a callback that throws on it makes the task's promise
\* reject with nothing pushed.
TaskCaught(stage, member, message) ==
    IF EmitThrows("model-error")
    THEN [st |-> "rejected", val |-> Null, errs |-> <<>>]
    ELSE [st |-> "resolved", val |-> Null,
          errs |-> <<StageError(stage, member.modelId, message, TRUE)>>]

\* How a Stage 1 task settles after its agent loop: the state of its promise,
\* the value it returns, and what it pushes on errors.
Stage1TaskResult(member, r) ==
    IF r.kind = "throw"
    THEN TaskCaught(1, member, "call failed")
    ELSE [st |-> "resolved", val |-> Analysis(member, r.json), errs |-> <<>>]

\* The synchronous start of member i's task of the given stage. In Stage 1 the
\* argument { sessionId, label } of runAgentLoop names an identifier runStage1
\* does not declare: if nothing in scope binds it the ReferenceError is caught
\* by the task's catch, which returns null without any model call.
TaskStart(stage, i) ==
    LET member == councilMembers[i]
        caught == TaskCaught(1, member, "sessionId is not defined")
    IN
    IF EmitThrows("model-start")
    THEN [t |-> [st |-> "rejected", starts |-> 1, val |-> Null], errs |-> <<>>, calls |-> {}]
    ELSE IF stage = 1 /\ ~sessionIdInScope
    THEN [t |-> [st |-> caught.st, starts |-> 1, val |-> Null],
          errs |-> caught.errs,
          calls |-> {}]
    ELSE [t |-> [st |-> "running", starts |-> 1, val |-> Null],
          errs |-> <<>>,
          calls |-> {<<stage, member.modelId>>}]

SetMin(S) == CHOOSE x \in S : \A y \in S : x <= y

\* The error entries pushed by starting the tasks of indices S, in index order.
RECURSIVE StartErrors(_, _)
StartErrors(stage, S) ==
    IF S = {} THEN <<>>
    ELSE <<>> \o TaskStart(stage, SetMin(S)).errs \o StartErrors(stage, S \ {SetMin(S)})

StartCalls(stage, S) == UNION {TaskStart(stage, i).calls : i \in S}

\* The task list after the tasks of indices S were invoked.
StartTasks(tk, stage, S) ==
    [i \in DOMAIN tk |-> IF i \in S
                         THEN [TaskStart(stage, i).t EXCEPT !.starts = tk[i].starts + 1]
                         ELSE tk[i]]

MemberIndices == DOMAIN councilMembers

\* members.map(...) then withConcurrencyLimit(tasks, this.config.concurrencyLimit).
StartStage(stage) ==
    LET d == Spawn(limit, Cardinality(MemberIndices))
        fresh == [i \in MemberIndices |-> Pending]
    IN  /\ disp' = d
        /\ task' = StartTasks(fresh, stage, AwaitedIn(d))
        /\ errors' = StartErrors(stage, AwaitedIn(d))
        /\ calls' = calls \cup StartCalls(stage, AwaitedIn(d))

\* A worker of the running stage resumes after its task settled.
StageWorkerResumes(stage, w) ==
    /\ disp.st = "running"
    /\ disp.workers[w].st = "awaiting"
    /\ Settled(disp.workers[w].index)
    /\ disp' = Resume(disp, w, task[disp.workers[w].index], NumTasks)
    /\ task' = StartTasks(task, stage, NewlyAwaited(disp', w))
    /\ errors' = errors \o StartErrors(stage, NewlyAwaited(disp', w))
    /\ calls' = calls \cup StartCalls(stage, NewlyAwaited(disp', w))

\* for (const result of results) if (result) list.push(result).
RECURSIVE NonNull(_, _, _)
NonNull(results, i, n) ==
    IF i >= n THEN <<>>
    ELSE (IF results[i] = Null THEN <<>> ELSE <<results[i]>>) \o NonNull(results, i + 1, n)

\* await Promise.all(workers): the stage goes on when every worker has ended.
AnyWorkerDone(d) == \E w \in DOMAIN d.workers : d.workers[w].st = "done"
WorkersJoined(d) == AllWorkersDone(d)

Init ==
    /\ limit \in ConcurrencyLimits
    /\ config \in Configs
    /\ sessionIdInScope \in BOOLEAN
    /\ task = <<>>
    /\ disp = Idle
    /\ pc = "init"
    /\ minQuorum = 0
    /\ errors = <<>>
    /\ stage1 = Null /\ stage2 = Null /\ stage3 = Null
    /\ chairmanSelection = Null
    /\ calls = {}
    /\ outcome = [kind |-> "pending"]
    /\ onProgress = "undefined"
    /\ stage1Metrics = <<>>
    /\ NoFunctionCall

\* recordStage1Start for the tasks of indices S, in index order: one entry per
\* model, not yet successful.
RECURSIVE StartMetrics(_)
StartMetrics(S) ==
    IF S = {} THEN <<>>
    ELSE <<[modelId |-> councilMembers[SetMin(S)].modelId, success |-> FALSE]>>
         \o StartMetrics(S \ {SetMin(S)})

\* recordStage1Complete: metrics.success = true on the entry of modelId.
recordStage1Complete(metrics, modelId) ==
    [k \in DOMAIN metrics |->
        IF metrics[k].modelId = modelId THEN [metrics[k] EXCEPT !.success = TRUE] ELSE metrics[k]]

\* deliberate(query) is called: the appropriateness gate, then label assignment
\* and the start of Stage 1 (runStage1 up to its await).
Deliberate(appropriate) ==
    /\ UNCHANGED <<fnVars, onProgress>>
    /\ pc = "init"
    /\ outcome.kind = "pending"
    /\ IF ~appropriate
       THEN /\ pc' = "aborted"
            /\ outcome' = [kind |-> "thrown", error |-> "Error", from |-> "init"]
            /\ UNCHANGED <<task, disp, errors, calls, stage1Metrics>>
       ELSE IF EmitThrows("start")
       THEN /\ pc' = "aborted"
            /\ outcome' = CallbackError("init")
            /\ UNCHANGED <<task, disp, errors, calls, stage1Metrics>>
       ELSE /\ pc' = "stage1"
            /\ StartStage(1)
            /\ stage1Metrics' = StartMetrics(AwaitedIn(disp'))
            /\ UNCHANGED outcome
    /\ UNCHANGED <<limit, config, sessionIdInScope, minQuorum, stage1, stage2, stage3,
                   chairmanSelection>>

\* Member i's agent loop ends and the rest of its Stage 1 task runs.
AgentLoopSettles(i, r) ==
    /\ UNCHANGED <<fnVars, onProgress>>
    /\ pc = "stage1"
    /\ task[i].st = "running"
    /\ LET res == Stage1TaskResult(councilMembers[i], r) IN
         /\ task' = [task EXCEPT ![i].st = res.st, ![i].val = res.val]
         /\ errors' = errors \o res.errs
         /\ stage1Metrics' = IF res.val # Null
                              THEN recordStage1Complete(stage1Metrics, councilMembers[i].modelId)
                              ELSE stage1Metrics
    /\ UNCHANGED <<limit, disp, config, sessionIdInScope, pc, minQuorum, stage1, stage2, stage3,
                   chairmanSelection, calls, outcome>>

Stage1WorkerResumes(w) ==
    /\ UNCHANGED <<fnVars, onProgress>>
    /\ pc = "stage1"
    /\ StageWorkerResumes(1, w)
    /\ stage1Metrics' = stage1Metrics \o StartMetrics(NewlyAwaited(disp', w))
    /\ UNCHANGED <<limit, config, sessionIdInScope, pc, minQuorum, stage1, stage2, stage3,
                   chairmanSelection, outcome>>

\* withConcurrencyLimit resolves and runStage1 returns its Stage1Result.
Stage1Returns ==
    /\ UNCHANGED <<fnVars, onProgress, stage1Metrics>>
    /\ pc = "stage1"
    /\ disp.st = "running"
    /\ WorkersJoined(disp)
    /\ disp' = [disp EXCEPT !.st = "resolved"]
    /\ LET analyses == NonNull(disp.results, 0, NumTasks) IN
         stage1' = [analyses |-> analyses,
                    complete |-> Len(analyses) = Cardinality(MemberIndices),
                    errors |-> errors]
    /\ IF EmitThrows("complete")
       THEN pc' = "aborted" /\ outcome' = CallbackError("stage1")
       ELSE pc' = "quorum-check-1" /\ UNCHANGED outcome
    /\ UNCHANGED <<limit, task, config, sessionIdInScope, minQuorum, errors, stage2, stage3,
                   chairmanSelection, calls>>

\* throw new CouncilQuorumError(count, minQuorum, stage.errors).
CouncilQuorumErrorWithoutErrors(actualCount, requiredCount, underlyingErrors, from) ==
    [kind |-> "thrown", error |-> "CouncilQuorumError", actualCount |-> actualCount,
     requiredCount |-> requiredCount, underlyingErrors |-> <<>>, from |-> from]
CouncilQuorumError(actualCount, requiredCount, underlyingErrors, from) ==
    [kind |-> "thrown", error |-> "CouncilQuorumError", actualCount |-> actualCount,
     requiredCount |-> requiredCount, underlyingErrors |-> underlyingErrors, from |-> from]

\* minQuorum is computed from config.minimumSeats;
\* if (stage1.analyses.length < minQuorum) throw ...; else runStage2 starts.
QuorumCheck1(seats) ==
    /\ UNCHANGED <<fnVars, onProgress, stage1Metrics>>
    /\ pc = "quorum-check-1"
    /\ config' = [config EXCEPT !.minimumSeats = seats]
    /\ minQuorum' = MinQuorum(seats)
    /\ IF Len(stage1.analyses) < minQuorum'
       THEN /\ pc' = "aborted"
            /\ outcome' = CouncilQuorumError(Len(stage1.analyses), minQuorum', stage1.errors, "quorum-check-1")
            /\ UNCHANGED <<task, disp, errors, calls>>
       ELSE IF EmitThrows("start")
       THEN /\ pc' = "aborted"
            /\ outcome' = CallbackError("quorum-check-1")
            /\ UNCHANGED <<task, disp, errors, calls>>
       ELSE /\ pc' = "stage2"
            /\ StartStage(2)
            /\ UNCHANGED outcome
    /\ UNCHANGED <<limit, sessionIdInScope, stage1, stage2, stage3, chairmanSelection>>

\* ---- Stage 2

Reverse(seq) == [k \in 1..Len(seq) |-> seq[Len(seq) + 1 - k]]

\* stage1.analyses.map(a => a.label).
Labels(analyses) == [k \in 1..Len(analyses) |-> analyses[k].label]

\* What a reviewer's call gives: a throw, a schema-invalid object with no
\* ranking array, or a schema-valid review that ranks the labels in reverse or
\* ranks no label at all.
Stage2Responses(labels) ==
    {[kind |-> "throw", rankingIsArray |-> FALSE, ranking |-> <<>>],
     [kind |-> "invalid", rankingIsArray |-> FALSE, ranking |-> <<>>],
     [kind |-> "valid", rankingIsArray |-> TRUE, ranking |-> Reverse(labels)],
     [kind |-> "valid", rankingIsArray |-> TRUE, ranking |-> <<>>]}

\* The PeerReview built from a reviewer's response.
Review(member, r, labels) ==
    [kind |-> "review",
     reviewerLabel |-> member.sessionLabel,
     ranking |-> IF r.kind = "valid" THEN r.ranking
                 ELSE IF r.rankingIsArray THEN r.ranking ELSE labels,
     reviewerModelId |-> member.modelId]

\* How a Stage 2 task settles after its call: the state of its promise, the
\* value it returns, and what it pushes on errors. The model-complete event is
\* emitted inside the try, so a callback that throws on it lands in the catch;
\* so does the salvage of a content that is JSON null, whose raw.evaluations
\* is a TypeError.
Stage2TaskResult(member, r, labels) ==
    IF r.kind = "throw"
    THEN TaskCaught(2, member, "call failed")
    ELSE IF EmitThrows("model-complete")
    THEN TaskCaught(2, member, "callback failed")
    ELSE IF r.kind = "null"
    THEN TaskCaught(2, member, "Cannot read properties of null")
    ELSE [st |-> "resolved", val |-> Review(member, r, labels), errs |-> <<>>]

\* Array.prototype.indexOf.
IndexOf(seq, x) ==
    IF \E k \in DOMAIN seq : seq[k] = x
    THEN (CHOOSE k \in DOMAIN seq : seq[k] = x /\ \A j \in DOMAIN seq : seq[j] = x => k <= j) - 1
    ELSE -1

\* positions: the 1-indexed rank of label in every review that ranks it.
RECURSIVE Positions(_, _, _)
Positions(reviews, label, k) ==
    IF k > Len(reviews) THEN <<>>
    ELSE (IF IndexOf(reviews[k].ranking, label) # -1
          THEN <<IndexOf(reviews[k].ranking, label) + 1>> ELSE <<>>)
         \o Positions(reviews, label, k + 1)

RECURSIVE Sum(_)
Sum(seq) == IF seq = <<>> THEN 0 ELSE Head(seq) + Sum(Tail(seq))

SumOfSquares(seq) == Sum([k \in DOMAIN seq |-> seq[k] * seq[k]])

\* Aggregate without Math.max(0, consistency).
AggregateUnclamped(label, positions, n) ==
    LET cnt == Len(positions)
        varNum == cnt * SumOfSquares(positions) - Sum(positions) * Sum(positions)
        maxVariance == (n - 1) * (n - 1)
        den == cnt * cnt * maxVariance
    IN  [label |-> label,
         rankSum |-> Sum(positions),
         rankCount |-> cnt,
         consistencyNum |-> IF maxVariance > 0 THEN den - varNum ELSE 1,
         consistencyDen |-> IF maxVariance > 0 THEN den ELSE 1]

\* One AggregateRanking. averageRank is the fraction rankSum / rankCount;
\* rankingConsistency is the fraction consistencyNum / consistencyDen, that is
\* max(0, 1 - variance / (n - 1)^2), or 1 when (n - 1)^2 = 0.
Aggregate(label, positions, n) ==
    LET cnt == Len(positions)
        varNum == cnt * SumOfSquares(positions) - Sum(positions) * Sum(positions)
        maxVariance == (n - 1) * (n - 1)
        den == cnt * cnt * maxVariance
    IN  [label |-> label,
         rankSum |-> Sum(positions),
         rankCount |-> cnt,
         consistencyNum |-> IF maxVariance > 0 THEN (IF den - varNum > 0 THEN den - varNum ELSE 0) ELSE 1,
         consistencyDen |-> IF maxVariance > 0 THEN den ELSE 1]

\* a.averageRank - b.averageRank < 0.
RanksAfter(a, b) == a.rankSum * b.rankCount > b.rankSum * a.rankCount
RanksBefore(a, b) == a.rankSum * b.rankCount < b.rankSum * a.rankCount

\* Array.prototype.sort with that comparator (stable): insertion from the left.
RECURSIVE InsertRanked(_, _)
InsertRanked(sorted, r) ==
    IF sorted = <<>> THEN <<r>>
    ELSE IF RanksBefore(r, Head(sorted)) THEN <<r>> \o sorted
    ELSE <<Head(sorted)>> \o InsertRanked(Tail(sorted), r)

RECURSIVE SortByAverageRank(_)
SortByAverageRank(rs) ==
    IF rs = <<>> THEN <<>>
    ELSE InsertRanked(SortByAverageRank(SubSeq(rs, 1, Len(rs) - 1)), rs[Len(rs)])

RECURSIVE RankEach(_, _, _)
RankEach(reviews, analyses, k) ==
    IF k > Len(analyses) THEN <<>>
    ELSE LET positions == Positions(reviews, analyses[k].label, 1) IN
         (IF Len(positions) > 0
          THEN <<Aggregate(analyses[k].label, positions, Len(analyses))>> ELSE <<>>)
         \o RankEach(reviews, analyses, k + 1)

calculateAggregateRankings(reviews, analyses) == SortByAverageRank(RankEach(reviews, analyses, 1))

\* The labels of the Stage 1 analyses handed to runStage2.
Stage1Labels == IF stage1 = Null THEN <<>> ELSE Labels(stage1.analyses)

\* Reviewer i's call settles and the rest of its Stage 2 task runs.
ReviewSettles(i, r) ==
    /\ UNCHANGED <<fnVars, onProgress, stage1Metrics>>
    /\ pc = "stage2"
    /\ task[i].st = "running"
    /\ LET res == Stage2TaskResult(councilMembers[i], r, Stage1Labels) IN
         /\ task' = [task EXCEPT ![i].st = res.st, ![i].val = res.val]
         /\ errors' = errors \o res.errs
    /\ UNCHANGED <<limit, disp, config, sessionIdInScope, pc, minQuorum, stage1, stage2, stage3,
                   chairmanSelection, calls, outcome>>

Stage2WorkerResumes(w) ==
    /\ UNCHANGED <<fnVars, onProgress, stage1Metrics>>
    /\ pc = "stage2"
    /\ StageWorkerResumes(2, w)
    /\ UNCHANGED <<limit, config, sessionIdInScope, pc, minQuorum, stage1, stage2, stage3,
                   chairmanSelection, outcome>>

\* withConcurrencyLimit resolves and runStage2 returns its Stage2Result.
Stage2Returns ==
    /\ UNCHANGED <<fnVars, onProgress, stage1Metrics>>
    /\ pc = "stage2"
    /\ disp.st = "running"
    /\ WorkersJoined(disp)
    /\ disp' = [disp EXCEPT !.st = "resolved"]
    /\ LET peerReviews == NonNull(disp.results, 0, NumTasks) IN
         stage2' = [peerReviews |-> peerReviews,
                    aggregateRankings |-> calculateAggregateRankings(peerReviews, stage1.analyses),
                    complete |-> Len(peerReviews) = Cardinality(MemberIndices),
                    errors |-> errors]
    /\ IF EmitThrows("complete")
       THEN pc' = "aborted" /\ outcome' = CallbackError("stage2")
       ELSE pc' = "quorum-check-2" /\ UNCHANGED outcome
    /\ UNCHANGED <<limit, task, config, sessionIdInScope, minQuorum, errors, stage1, stage3,
                   chairmanSelection, calls>>

\* if (stage2.peerReviews.length < minQuorum) throw ...
QuorumCheck2 ==
    /\ UNCHANGED <<fnVars, onProgress, stage1Metrics>>
    /\ pc = "quorum-check-2"
    /\ IF Len(stage2.peerReviews) < minQuorum
       THEN /\ pc' = "aborted"
            /\ outcome' = CouncilQuorumError(Len(stage2.peerReviews), minQuorum, stage2.errors, "quorum-check-2")
       ELSE /\ pc' = "select-chairman"
            /\ UNCHANGED outcome
    /\ UNCHANGED <<wclVars, config, sessionIdInScope, minQuorum, errors, stage1, stage2, stage3,
                   chairmanSelection, calls>>

\* ---- chairman selection

\* stage1.analyses.find(a => a.label === label): its position, 0 if none.
FindByLabelNone(analyses, label) == 0
FindByLabel(analyses, label) ==
    IF \E k \in DOMAIN analyses : analyses[k].label = label
    THEN CHOOSE k \in DOMAIN analyses :
            analyses[k].label = label /\ \A j \in DOMAIN analyses : analyses[j].label = label => k <= j
    ELSE 0

\* rankings.slice(0, Math.min(3, rankings.length)).map(...).
AlternativesTopOnly(s1, rankings) ==
    [k \in 1..Min(1, Len(rankings)) |->
        [model |-> IF FindByLabel(s1.analyses, rankings[k].label) # 0
                   THEN s1.analyses[FindByLabel(s1.analyses, rankings[k].label)].modelId
                   ELSE rankings[k].label,
         rankSum |-> rankings[k].rankSum,
         rankCount |-> rankings[k].rankCount]]
Alternatives(s1, rankings) ==
    [k \in 1..Min(3, Len(rankings)) |->
        [model |-> IF FindByLabel(s1.analyses, rankings[k].label) # 0
                   THEN s1.analyses[FindByLabel(s1.analyses, rankings[k].label)].modelId
                   ELSE rankings[k].label,
         rankSum |-> rankings[k].rankSum,
         rankCount |-> rankings[k].rankCount]]

\* if (userOverride) ... stage1.analyses.some(a => a._modelId === userOverride).
ParticipatedNever(s1, userOverride) == FALSE
ParticipatedAlways(s1, userOverride) == userOverride # "undefined"
Participated(s1, userOverride) ==
    userOverride # "undefined" /\ \E k \in DOMAIN s1.analyses : s1.analyses[k].modelId = userOverride

\* stage1.analyses[0]?._modelId || 'unknown'.
FirstResponderUnknown(s1) == "unknown"
FirstResponder(s1) == IF Len(s1.analyses) > 0 THEN s1.analyses[1].modelId ELSE "unknown"

selectChairman(s1, s2, userOverride) ==
    LET rankings == s2.aggregateRankings
        top == IF Len(rankings) > 0 THEN FindByLabel(s1.analyses, rankings[1].label) ELSE 0
    IN  IF Participated(s1, userOverride)
        THEN [model |-> userOverride, method |-> "user-specified", alternativesConsidered |-> <<>>]
        ELSE IF top # 0
        THEN [model |-> s1.analyses[top].modelId, method |-> "algorithmic",
              alternativesConsidered |-> Alternatives(s1, rankings)]
        ELSE [model |-> FirstResponder(s1), method |-> "fallback", alternativesConsidered |-> <<>>]

\* recordChairmanSelection, then runStage3WithChairman up to its await: the one
\* Stage 3 call goes to the selected model.
SelectChairman(userOverride) ==
    /\ UNCHANGED <<fnVars, onProgress, stage1Metrics>>
    /\ pc = "select-chairman"
    /\ config' = [config EXCEPT !.chairmanOverrideModel = userOverride]
    /\ chairmanSelection' = selectChairman(stage1, stage2, userOverride)
    /\ errors' = <<>>
    /\ IF EmitThrows("start") \/ EmitThrows("model-start")
       THEN /\ pc' = "aborted"
            /\ outcome' = CallbackError("select-chairman")
            /\ UNCHANGED calls
       ELSE /\ pc' = "stage3"
            /\ calls' = calls \cup {<<3, chairmanSelection'.model>>}
            /\ UNCHANGED outcome
    /\ UNCHANGED <<wclVars, sessionIdInScope, minQuorum, stage1, stage2, stage3>>

\* ---- Stage 3

\* A Stage3Synthesis, by the fields the controller and the audit read: the
\* consensus flag and position, and the length of every list.
Synthesis(reached, position, issues, factors, dissent, weaknesses, openQuestions, actionItems) ==
    [reached |-> reached, position |-> position, issues |-> issues, factors |-> factors,
     dissent |-> dissent, weaknesses |-> weaknesses, openQuestions |-> openQuestions,
     actionItems |-> actionItems]

getEmptySynthesis == Synthesis(FALSE, "Synthesis failed - see errors", 0, 0, 0, 0, 0, 0)

\* A length, or 0 when the field is not an array (marked -1).
ArrayLen(n) == IF n >= 0 THEN n ELSE 0

\* The raw content of a response that fails the Stage 3 schema: null, or an
\* object some of whose fields are missing or are not arrays (-1), and whose
\* consensus.reached is true, absent, or the string "no".
RawContents ==
    {[isNull |-> TRUE, reached |-> "absent", issues |-> -1, dissent |-> -1],
     [isNull |-> FALSE, reached |-> "true", issues |-> -1, dissent |-> 1],
     [isNull |-> FALSE, reached |-> "no", issues |-> -1, dissent |-> 1]}

\* Boolean(value): false for false and for an absent field, true for true and
\* for any non-empty string.
ToBoolean(value) == value \notin {"false", "absent", ""}

\* Reading a field of null throws and the catch returns the empty synthesis.
extractPartialSynthesis(raw) ==
    IF raw.isNull THEN getEmptySynthesis
    ELSE Synthesis(ToBoolean(raw.reached), "", ArrayLen(raw.issues), 0, ArrayLen(raw.dissent), 0, 0, 0)

\* What the chairman's call gives: a throw, a schema-valid synthesis, or
\* content that fails the schema.
Stage3Responses ==
    {[kind |-> "throw"]}
    \cup {[kind |-> "valid", data |-> Synthesis(TRUE, "consensus", 1, 1, 1, 1, 1, 1)]}
    \cup {[kind |-> "invalid", raw |-> raw] : raw \in RawContents}

\* errors.push({ stage: 3, modelId: chairmanModel, ..., recoverable: false }).
ChairmanFailureRecoverable(chairmanModel) == StageError(3, chairmanModel, "call failed", TRUE)
ChairmanFailure(chairmanModel) == StageError(3, chairmanModel, "call failed", FALSE)

\* A Stage3Result that names the first configured model as chairman, not the
\* model the call was addressed to.
Stage3ResultOfFirstModel(chairmanModel, r) ==
    IF r.kind = "throw"
    THEN [synthesis |-> getEmptySynthesis, chairmanModel |-> ModelIds[1], complete |-> FALSE,
          errors |-> <<ChairmanFailure(chairmanModel)>>]
    ELSE IF r.kind = "invalid"
    THEN [synthesis |-> extractPartialSynthesis(r.raw), chairmanModel |-> ModelIds[1],
          complete |-> TRUE,
          errors |-> <<StageError(3, "undefined", "partial extraction", TRUE)>>]
    ELSE [synthesis |-> r.data, chairmanModel |-> ModelIds[1], complete |-> TRUE, errors |-> <<>>]

\* The Stage3Result of runStage3WithChairman.
Stage3Result(chairmanModel, r) ==
    IF r.kind = "throw"
    THEN [synthesis |-> getEmptySynthesis, chairmanModel |-> chairmanModel, complete |-> FALSE,
          errors |-> <<ChairmanFailure(chairmanModel)>>]
    ELSE IF r.kind = "invalid"
    THEN [synthesis |-> extractPartialSynthesis(r.raw), chairmanModel |-> chairmanModel,
          complete |-> TRUE,
          errors |-> <<StageError(3, "undefined", "partial extraction", TRUE)>>]
    ELSE [synthesis |-> r.data, chairmanModel |-> chairmanModel, complete |-> TRUE, errors |-> <<>>]

\* The chairman's call settles and runStage3WithChairman returns.
ChairmanSettles(r) ==
    /\ UNCHANGED <<fnVars, onProgress, stage1Metrics>>
    /\ pc = "stage3"
    /\ LET caught == r.kind = "throw" \/ EmitThrows("model-complete") IN
         IF (caught /\ EmitThrows("model-error")) \/ EmitThrows("complete")
         THEN /\ pc' = "aborted"
              /\ outcome' = CallbackError("stage3")
              /\ UNCHANGED stage3
         ELSE /\ pc' = "assemble"
              /\ stage3' = Stage3Result(chairmanSelection.model,
                                         IF caught THEN [kind |-> "throw"] ELSE r)
              /\ UNCHANGED outcome
    /\ UNCHANGED <<wclVars, config, sessionIdInScope, minQuorum, errors, stage1, stage2,
                   chairmanSelection, calls>>

\* ---- audit and assembly

\* detectCrossStageAnomalies reads issue.issue?.toLowerCase() of every item of
\* an array-valued thresholdIssues: a null item has no property issue, and a
\* number has no toLowerCase, so either makes the loop throw a TypeError.
ItemThrows(item) == item \in {IssueNull, IssueNumber}

ThresholdScanThrows(analyses) ==
    \E k \in DOMAIN analyses :
        /\ analyses[k].structured.thresholdIssues.isArray
        /\ \E j \in DOMAIN analyses[k].structured.thresholdIssues.items :
              ItemThrows(analyses[k].structured.thresholdIssues.items[j])

\* The model ids of the entries of metrics whose success flag is success, in the
\* insertion order of the Map.
RECURSIVE ModelsWhere(_, _)
ModelsWhere(metrics, success) ==
    IF metrics = <<>> THEN <<>>
    ELSE (IF Head(metrics).success = success THEN <<Head(metrics).modelId>> ELSE <<>>)
         \o ModelsWhere(Tail(metrics), success)

\* The audit collector's own quorum constant.
MINIMUM_QUORUM == 2

\* An AuditAnomaly, by the fields the integrity score reads.
Anomaly(stage, severity, type) == [stage |-> stage, severity |-> severity, type |-> type]

\* The anomalies of buildStage1Audit that do not depend on timing: a
\* model-failure warning per failed model, and a quorum-risk warning when
\* exactly MINIMUM_QUORUM models responded. (No code calls recordStage1Retry,
\* so retries stay 0 and retry-excessive is never raised.)
Stage1Anomalies(responded, failed) ==
    [k \in DOMAIN failed |-> Anomaly(1, "warning", "model-failure")]
    \o (IF Len(responded) = MINIMUM_QUORUM THEN <<Anomaly(1, "warning", "quorum-risk")>> ELSE <<>>)

\* buildStage1Audit: for (const [modelId, metrics] of this.stage1Metrics)
\* a successful entry goes to modelsResponded, any other to modelsFailed.
buildStage1AuditAllResponded(metrics, councilModels) ==
    [modelsQueried |-> councilModels,
     modelsResponded |-> ModelsWhere(metrics, TRUE) \o ModelsWhere(metrics, FALSE),
     modelsFailed |-> <<>>,
     anomalies |-> Stage1Anomalies(ModelsWhere(metrics, TRUE) \o ModelsWhere(metrics, FALSE), <<>>)]
buildStage1Audit(metrics, councilModels) ==
    [modelsQueried |-> councilModels,
     modelsResponded |-> ModelsWhere(metrics, TRUE),
     modelsFailed |-> ModelsWhere(metrics, FALSE),
     anomalies |-> Stage1Anomalies(ModelsWhere(metrics, TRUE), ModelsWhere(metrics, FALSE))]

\* AuditCollector.buildAudit, by what the controller's result shows of it.
buildAudit(s1, s2, s3, selection) ==
    [chairmanSelection |-> selection,
     stage1 |-> buildStage1Audit(stage1Metrics, config.councilModels),
     stage2 |-> [reviewsCompleted |-> Len(s2.peerReviews)],
     stage3 |-> [chairmanModel |-> s3.chairmanModel, dissentPreserved |-> s3.synthesis.dissent]]

constructDeliberation(s1, s2, s3, audit) ==
    [kind |-> "returned",
     consensus |-> [reached |-> s3.synthesis.reached, position |-> s3.synthesis.position],
     stageResults |-> [stage1 |-> s1, stage2 |-> s2, stage3 |-> s3],
     chairmanModel |-> s3.chairmanModel,
     audit |-> audit]

\* getSummary, buildAudit and constructDeliberation; an exception of buildAudit
\* leaves deliberate() rejected.
Assemble ==
    /\ UNCHANGED <<fnVars, onProgress, stage1Metrics>>
    /\ pc = "assemble"
    /\ IF ThresholdScanThrows(stage1.analyses)
       THEN /\ pc' = "aborted"
            /\ outcome' = [kind |-> "thrown", error |-> "TypeError", from |-> "assemble"]
       ELSE /\ pc' = "done"
            /\ outcome' = constructDeliberation(stage1, stage2, stage3,
                              buildAudit(stage1, stage2, stage3, chairmanSelection))
    /\ UNCHANGED <<wclVars, config, sessionIdInScope, minQuorum, errors, stage1, stage2, stage3,
                   chairmanSelection, calls>>

Next ==
    \/ \E appropriate \in BOOLEAN : Deliberate(appropriate)
    \/ \E i \in DOMAIN task, r \in Stage1Responses : AgentLoopSettles(i, r)
    \/ \E w \in DOMAIN disp.workers : Stage1WorkerResumes(w)
    \/ Stage1Returns
    \/ \E seats \in SeatSettings : QuorumCheck1(seats)
    \/ \E i \in DOMAIN task, r \in Stage2Responses(Stage1Labels) : ReviewSettles(i, r)
    \/ \E w \in DOMAIN disp.workers : Stage2WorkerResumes(w)
    \/ Stage2Returns
    \/ QuorumCheck2
    \/ \E userOverride \in OverrideSettings : SelectChairman(userOverride)
    \/ \E r \in Stage3Responses : ChairmanSettles(r)
    \/ Assemble

Spec == Init /\ [][Next]_vars

\* The callbacks an embedder can install with setProgressCallback (or as the
\* constructor option onProgress, if they let the constructor's own event pass): one that returns on every event, or one that throws
\* on every event of one type.
Callbacks == {"returns"} \cup EventTypes

\* The controller with a progress callback installed before deliberate().
InitProgress ==
    /\ limit \in ConcurrencyLimits
    /\ config \in Configs
    /\ sessionIdInScope \in BOOLEAN
    /\ task = <<>>
    /\ disp = Idle
    /\ pc = "init"
    /\ minQuorum = 0
    /\ errors = <<>>
    /\ stage1 = Null /\ stage2 = Null /\ stage3 = Null
    /\ chairmanSelection = Null
    /\ calls = {}
    /\ outcome = [kind |-> "pending"]
    /\ onProgress \in Callbacks
    /\ stage1Metrics = <<>>
    /\ NoFunctionCall

SpecProgress == InitProgress /\ [][Next]_vars

\* ------------------------------------------------- prompts of Stage 2 and 3

\* JSON.stringify of a sequence of values already serialized: their tokens in order.
RECURSIVE Concat(_)
Concat(seqs) == IF seqs = <<>> THEN <<>> ELSE Head(seqs) \o Concat(Tail(seqs))

\* JSON.stringify of a member's parsed Stage 1 JSON, as its keys and string
\* values in order; a missing field is left out.
SerializeJson(json) ==
    (IF json.confidence = "missing" THEN <<>> ELSE <<"confidence", json.confidence>>)
    \o <<"thresholdIssues">> \o json.thresholdIssues.items

\* analysesForReview: { label: a.label, analysis: a._structured || a.content };
\* runStage1 always sets _structured to the parsed JSON, which is truthy.
AnalysisForReviewWithId(a) ==
    <<"id", a.modelId, "label", a.label, "analysis">> \o SerializeJson(a.structured)
AnalysisForReview(a) ==
    <<"label", a.label, "analysis">> \o SerializeJson(a.structured)

\* The system and user messages every Stage 2 reviewer is sent: the fixed
\* instructions, and the user prompt with JSON.stringify(analysesForReview).
Stage2Messages(s1) ==
    [system |-> <<"STAGE 2: PEER REVIEW INSTRUCTIONS">>,
     user |-> <<"ANALYSES:">>
              \o Concat([k \in 1..Len(s1.analyses) |-> AnalysisForReview(s1.analyses[k])])]

\* analysesForSynthesis: { label, confidence, analysis: a._structured || a.content }.
AnalysisForSynthesis(a) ==
    <<"label", a.label, "confidence", a.confidence, "analysis">> \o SerializeJson(a.structured)

\* rankingSummary: { rank: i + 1, label, averageRank, consistency }.
RankingSummary(rankings) ==
    Concat([k \in 1..Len(rankings) |->
        <<"rank", ToString(k), "label", rankings[k].label,
          "averageRank", ToString(rankings[k].rankSum), ToString(rankings[k].rankCount),
          "consistency", ToString(rankings[k].consistencyNum), ToString(rankings[k].consistencyDen)>>])

\* The system and user messages the chairman is sent (buildStage3Prompt).
Stage3Messages(s1, s2, councilModels) ==
    [system |-> <<"STAGE 3: CHAIRMAN SYNTHESIS INSTRUCTIONS">>,
     user |-> <<"STAGE 1 ANALYSES:">>
              \o Concat([k \in 1..Len(s1.analyses) |-> AnalysisForSynthesis(s1.analyses[k])])
              \o <<"STAGE 2 PEER RANKINGS:">> \o RankingSummary(s2.aggregateRankings)
              \o <<"Total council members:", ToString(Len(councilModels))>>]

\* The ways of seating the models of S on the labels A, B, ...
Arrangements(S) ==
    {p \in [1..Cardinality(S) -> S] : \A i, j \in 1..Cardinality(S) : p[i] = p[j] => i = j}

\* Two runs over the same council and the same per-label responses, the
\* second with the models seated in another order.
PromptInputs ==
    UNION {[models1 : {SubSeq(ModelIds, 1, n)},
            models2 : Arrangements({ModelIds[k] : k \in 1..n}),
            responses : [0..(n - 1) -> Stage1Responses]] : n \in 2..MaxModels}

\* The Stage1Result of a run whose member i got responses[i].
Stage1ResultOf(models, responses) ==
    LET members == assignLabels(models)
        results == [i \in DOMAIN members |-> Stage1TaskResult(members[i], responses[i]).val]
        analyses == NonNull(results, 0, Len(models))
    IN  [analyses |-> analyses, complete |-> Len(analyses) = Len(models), errors |-> <<>>]

\* The reviews runStage2 collects when member i's call gives responses[i].
PeerReviewsOf(models, s1, responses) ==
    LET members == assignLabels(models)
        results == [i \in DOMAIN members |->
                       Stage2TaskResult(members[i], responses[i], Labels(s1.analyses)).val]
    IN  NonNull(results, 0, Len(models))

\* The Stage2Result of a run in which every member's review is schema-valid
\* and ranks the labels in reverse.
Stage2ResultOf(models, s1) ==
    LET valid == [kind |-> "valid", rankingIsArray |-> TRUE, ranking |-> Reverse(Labels(s1.analyses))]
        peerReviews == PeerReviewsOf(models, s1, [i \in 0..(Len(models) - 1) |-> valid])
    IN  [peerReviews |-> peerReviews,
         aggregateRankings |-> calculateAggregateRankings(peerReviews, s1.analyses),
         complete |-> TRUE, errors |-> <<>>]

\* The messages a run builds for its reviewers and for its chairman.
PromptsOf(models, responses) ==
    LET s1 == Stage1ResultOf(models, responses) IN
    [stage2 |-> Stage2Messages(s1),
     stage3 |-> Stage3Messages(s1, Stage2ResultOf(models, s1), models)]

\* The dispatcher is not in use while a function is studied on its own.
NoDispatcher == limit = MaxLimit /\ task = <<>> /\ disp = Idle

InitPrompts ==
    /\ NoDispatcher
    /\ NoDeliberation
    /\ args \in PromptInputs
    /\ ret = Null

\* Both runs build their Stage 2 and Stage 3 prompts.
BuildPrompts ==
    /\ ret = Null
    /\ ret' = [run1 |-> PromptsOf(args.models1, args.responses),
               run2 |-> PromptsOf(args.models2, args.responses)]
    /\ UNCHANGED <<wclVars, ctlVars, args>>

NextPrompts == BuildPrompts

SpecPrompts == InitPrompts /\ [][NextPrompts]_vars

\* ------------------------- ranking aggregation and chairman selection alone

\* The first two entries exchanged.
SwapFirstTwo(seq) ==
    IF Len(seq) < 2 THEN seq ELSE <<seq[2], seq[1]>> \o SubSeq(seq, 3, Len(seq))

\* Strings a reviewer can put in its ranking that label no analysis: the
\* schema asks for an array of strings and nothing compares them to the labels.
UnknownLabels == <<"X", "Y", "Z">>

\* What a reviewer's call can give: a throw, or a schema-valid review whose
\* ranking is the labels as listed, with the first two exchanged, only the
\* first label, only the first two, no label at all, or the labels after three
\* unknown ones.
RankingResponses(labels) ==
    {[kind |-> "throw", rankingIsArray |-> FALSE, ranking |-> <<>>]}
    \cup {[kind |-> "valid", rankingIsArray |-> TRUE, ranking |-> rk] :
            rk \in {labels, SwapFirstTwo(labels), SubSeq(labels, 1, 1),
                    SubSeq(labels, 1, Min(2, Len(labels))), <<>>,
                    UnknownLabels \o labels}}

\* A schema-valid Stage 1 response.
ValidStage1Response ==
    [kind |-> "json",
     json |-> [confidence |-> "high", thresholdIssues |-> [isArray |-> TRUE, items |-> <<IssueObject>>]]]

\* The Stage1Result when exactly the members of responders succeeded.
Stage1ResultWith(models, responders) ==
    Stage1ResultOf(models, [i \in 0..(Len(models) - 1) |->
                               IF i \in responders THEN ValidStage1Response ELSE [kind |-> "throw"]])

\* What runStage2 holds when its dispatcher has returned: a council of n
\* models, the Stage 1 result of the members that succeeded, and the reviews
\* collected when member i's call gave responses[i].
RankingInput(n, responders, responses) ==
    LET models == SubSeq(ModelIds, 1, n)
        s1 == Stage1ResultWith(models, responders)
    IN  [councilModels |-> models,
         stage1 |-> s1,
         peerReviews |-> PeerReviewsOf(models, s1, responses)]

\* The responses the n reviewers can give on the analyses of responders.
ReviewerResponses(n, responders) ==
    LET labels == Labels(Stage1ResultWith(SubSeq(ModelIds, 1, n), responders).analyses) IN
    [0..(n - 1) -> RankingResponses(labels)]

\* At least one member succeeded in Stage 1, as the quorum requires.
InitRanking ==
    /\ NoDispatcher
    /\ NoDeliberation
    /\ \E n \in 2..MaxRanked :
         \E responders \in (SUBSET (0..(n - 1))) \ {{}} :
           \E responses \in ReviewerResponses(n, responders) :
             args = RankingInput(n, responders, responses)
    /\ ret = Null

\* runStage2 computes the aggregate rankings and returns.
CallAggregateRankings ==
    /\ ret = Null
    /\ ret' = [stage2 |-> [peerReviews |-> args.peerReviews,
                           aggregateRankings |->
                               calculateAggregateRankings(args.peerReviews, args.stage1.analyses),
                           complete |-> Len(args.peerReviews) = Len(args.councilModels),
                           errors |-> <<>>],
               userOverride |-> "unread",
               selection |-> Null]
    /\ UNCHANGED <<wclVars, ctlVars, args>>

\* deliberate() calls selectChairman(stage1, stage2, this.config.chairmanOverrideModel),
\* once the Stage 2 quorum check has passed: its minimum is at least 1.
CallSelectChairman(userOverride) ==
    /\ ret # Null
    /\ ret.selection = Null
    /\ ret.stage2.peerReviews # <<>>
    /\ ret' = [ret EXCEPT !.userOverride = userOverride,
                          !.selection = selectChairman(args.stage1, ret.stage2, userOverride)]
    /\ UNCHANGED <<wclVars, ctlVars, args>>

NextRanking ==
    \/ CallAggregateRankings
    \/ \E userOverride \in OverrideSettings : CallSelectChairman(userOverride)

SpecRanking == InitRanking /\ [][NextRanking]_vars

\* ------------------------------------------------------------------ startup

\* process.env.COUNCIL_MODEL_k: unset, blank, or the k-th identifier, written
\* with stray spaces or without.
EnvValues(k) == {"unset", "  ", <<"m1", " m2", "m3 ">>[k]}

\* String.prototype.trim on those values.
Trim(v) ==
    CASE v = "  " -> ""
      [] v = " m2" -> "m2"
      [] v = "m3 " -> "m3"
      [] OTHER -> v

\* for (i = 1; i <= 10; i++) if (modelId && modelId.trim()) models.push(modelId.trim()).
RECURSIVE LoadedModels(_, _)
LoadedModels(env, i) ==
    IF i > Len(env) THEN <<>>
    ELSE (IF env[i] # "unset" /\ Trim(env[i]) # "" THEN <<Trim(env[i])>> ELSE <<>>)
         \o LoadedModels(env, i + 1)

\* loadCouncilConfig: a ConfigurationError for fewer than 2 models, or the
\* configuration. The settings deliberate() reads later are drawn where they
\* are read (the loader's minimumSeats: 2 among them).
loadCouncilConfigAcceptsOne(env) ==
    LET models == LoadedModels(env, 1) IN
    IF Len(models) < 1
    THEN [kind |-> "thrown", error |-> "ConfigurationError", from |-> "startup"]
    ELSE [kind |-> "config",
          config |-> [councilModels |-> models, minimumSeats |-> "unread",
                      chairmanOverrideModel |-> "unread"]]
loadCouncilConfig(env) ==
    LET models == LoadedModels(env, 1) IN
    IF Len(models) < 2
    THEN [kind |-> "thrown", error |-> "ConfigurationError", from |-> "startup"]
    ELSE [kind |-> "config",
          config |-> [councilModels |-> models, minimumSeats |-> "unread",
                      chairmanOverrideModel |-> "unread"]]

\* The command line before it has read its configuration.
InitStartup ==
    /\ limit \in ConcurrencyLimits
    /\ config = [councilModels |-> <<>>, minimumSeats |-> "unread", chairmanOverrideModel |-> "unread"]
    /\ sessionIdInScope \in BOOLEAN
    /\ task = <<>>
    /\ disp = Idle
    /\ pc = "startup"
    /\ minQuorum = 0
    /\ errors = <<>>
    /\ stage1 = Null /\ stage2 = Null /\ stage3 = Null
    /\ chairmanSelection = Null
    /\ calls = {}
    /\ outcome = [kind |-> "pending"]
    /\ onProgress = "undefined"
    /\ stage1Metrics = <<>>
    /\ \E env \in [1..MaxModels -> UNION {EnvValues(k) : k \in 1..MaxModels}] :
         /\ \A k \in 1..MaxModels : env[k] \in EnvValues(k)
         /\ args = [kind |-> "env", slots |-> env]
    /\ ret = Null

\* runCouncil: config = loadCouncilConfig(), a ConfigurationError ending the
\* process; otherwise the orchestrator is constructed with the configuration.
LoadCouncilConfig ==
    /\ pc = "startup"
    /\ LET loaded == loadCouncilConfig(args.slots) IN
         IF loaded.kind = "thrown"
         THEN /\ pc' = "aborted"
              /\ outcome' = loaded
              /\ UNCHANGED config
         ELSE /\ pc' = "init"
              /\ config' = loaded.config
              /\ UNCHANGED outcome
    /\ UNCHANGED <<wclVars, sessionIdInScope, minQuorum, errors, stage1, stage2, stage3,
                   chairmanSelection, calls, onProgress, stage1Metrics, fnVars>>

NextStartup == LoadCouncilConfig \/ Next

SpecStartup == InitStartup /\ [][NextStartup]_vars

\* ------------------------------------------------- the audit builders alone

\* The values a response can carry as assessment: strings, the empty string
\* among them, or no assessment at all (a salvaged analysis).
Assessments == {"x", "y", "z", "", "missing"}

\* structured?.assessment || '': a missing or empty assessment reads as ''.
AssessmentOf(a) == IF a.assessment = "missing" THEN "" ELSE a.assessment

\* new Set(stage1.analyses.map(...)).size.
uniquePositions(analyses) == Cardinality({AssessmentOf(analyses[k]) : k \in DOMAIN analyses})

\* Math.max(0, uniquePositions - 1 - dissentPreserved).
DissentSuppressedNoBaseline(unique, preserved) ==
    IF unique - preserved > 0 THEN unique - preserved ELSE 0
DissentSuppressed(unique, preserved) ==
    IF unique - 1 - preserved > 0 THEN unique - 1 - preserved ELSE 0

\* Math.max(...relianceValues).
RECURSIVE MaxReliance(_)
MaxReliance(reliance) ==
    IF reliance = <<>> THEN 0
    ELSE IF Head(reliance) > MaxReliance(Tail(reliance)) THEN Head(reliance)
    ELSE MaxReliance(Tail(reliance))

\* sourceReliance[label], the entries being in the order of the analyses.
RelianceOf(analyses, reliance, label) ==
    LET k == CHOOSE j \in DOMAIN analyses : analyses[j].label = label IN reliance[k]

\* The first label, in insertion order, whose reliance is the maximum: what
\* both find(v === maxReliance) and the stable descending sort give.
DominantLabel(analyses, reliance) ==
    LET k == CHOOSE j \in DOMAIN analyses :
                 /\ reliance[j] = MaxReliance(reliance)
                 /\ \A i \in 1..(j - 1) : reliance[i] # MaxReliance(reliance)
    IN  analyses[k].label

\* stage2.aggregateRankings.find(r => r.label === label), or Null.
RankingFor(aggregateRankings, label) ==
    IF \E k \in DOMAIN aggregateRankings : aggregateRankings[k].label = label
    THEN aggregateRankings[CHOOSE k \in DOMAIN aggregateRankings : aggregateRankings[k].label = label]
    ELSE Null

\* The synthesis-divergence test: the top-ranked analysis has no reliance, some
\* analysis has, and the dominant one has averageRank > analyses.length / 2.
SynthesisDiverges(analyses, aggregateRankings, reliance) ==
    /\ aggregateRankings # <<>>
    /\ RelianceOf(analyses, reliance, aggregateRankings[1].label) = 0
    /\ Sum(reliance) > 0
    /\ LET r == RankingFor(aggregateRankings, DominantLabel(analyses, reliance)) IN
         /\ r # Null
         /\ 2 * r.rankSum > Len(analyses) * r.rankCount

\* buildStage3Audit. reliance[k] is the number of key phrases of analysis k
\* found in the synthesis text.
buildStage3Audit(s1, s2, s3, reliance) ==
    LET dissentPreserved == s3.synthesis.dissent
        dissentSuppressed == DissentSuppressed(uniquePositions(s1.analyses), dissentPreserved)
        total == Sum(reliance)
    IN  [chairmanModel |-> s3.chairmanModel,
         consensusReached |-> s3.synthesis.reached,
         dissentPreserved |-> dissentPreserved,
         dissentSuppressed |-> dissentSuppressed,
         anomalies |->
            (IF dissentSuppressed > 0
             THEN <<Anomaly(3, "warning", "dissent-suppression")>> ELSE <<>>)
            \o (IF total > 0 /\ 10 * MaxReliance(reliance) > 7 * total
                THEN <<Anomaly(3, "warning", "single-source-dominance")>> ELSE <<>>)
            \o (IF SynthesisDiverges(s1.analyses, s2.aggregateRankings, reliance)
                THEN <<Anomaly(3, "critical", "synthesis-divergence")>> ELSE <<>>)]

\* allAnomalies.filter(a => a.severity === severity).length.
RECURSIVE CountSeverity(_, _)
CountSeverity(anomalies, severity) ==
    IF anomalies = <<>> THEN 0
    ELSE (IF Head(anomalies).severity = severity THEN 1 ELSE 0)
         + CountSeverity(Tail(anomalies), severity)

\* calculateProcessIntegrity: the score, step by step as the code assigns it.
calculateProcessIntegrity(stage1Audit, stage2Audit, stage3Audit, crossStageAnomalies, totalModels) ==
    LET allAnomalies == stage1Audit.anomalies \o stage2Audit.anomalies
                        \o stage3Audit.anomalies \o crossStageAnomalies
        criticalCount == CountSeverity(allAnomalies, "critical")
        warningCount == CountSeverity(allAnomalies, "warning")
        score1 == IF criticalCount > 0 THEN "low" ELSE "high"
        score2 == IF warningCount >= 3 /\ score1 # "low" THEN "medium" ELSE score1
        bare == Len(stage1Audit.modelsResponded) = MINIMUM_QUORUM
        score3 == IF bare /\ score2 = "high" THEN "medium" ELSE score2
        none == stage2Audit.rankingConsensus = "none"
        score4 == IF none /\ score3 = "high" THEN "medium" ELSE score3
    IN  [score |-> score4,
         flags |-> (IF criticalCount > 0 THEN <<"critical">> ELSE <<>>)
                   \o (IF warningCount >= 3 /\ score1 # "low" THEN <<"warnings">> ELSE <<>>)
                   \o (IF bare THEN <<"bare-quorum">> ELSE <<>>)
                   \o (IF Len(stage1Audit.modelsFailed) > 0 THEN <<"failures">> ELSE <<>>)
                   \o (IF none THEN <<"no-consensus">> ELSE <<>>)
                   \o (IF stage3Audit.dissentSuppressed > 0 THEN <<"dissent">> ELSE <<>>)]

\* The Stage 1 analyses of n members with the given assessments.
AssessedAnalyses(assessments) ==
    [k \in DOMAIN assessments |-> [label |-> Letters[k], assessment |-> assessments[k]]]

\* Aggregate rankings that place the labels in the given order, the k-th with
\* average rank k; or none, when no review ranked a label.
RankedInOrder(labels) ==
    [k \in DOMAIN labels |-> [label |-> labels[k], rankSum |-> k, rankCount |-> 1]]

\* The arguments of a buildStage3Audit call.
Stage3AuditInput(assessments, dissent, reliance, rankings) ==
    [kind |-> "stage3",
     stage1 |-> [analyses |-> AssessedAnalyses(assessments)],
     stage2 |-> [aggregateRankings |-> rankings],
     stage3 |-> [synthesis |-> Synthesis(TRUE, "consensus", 1, 1, dissent, 1, 1, 1),
                 chairmanModel |-> ModelIds[1]],
     reliance |-> reliance]

\* The anomalies of a Stage 3 audit, any of the three it can raise.
Stage3AnomalySets ==
    {d \o o \o c :
        d \in {<<>>, <<Anomaly(3, "warning", "dissent-suppression")>>},
        o \in {<<>>, <<Anomaly(3, "warning", "single-source-dominance")>>},
        c \in {<<>>, <<Anomaly(3, "critical", "synthesis-divergence")>>}}

\* The arguments of a calculateProcessIntegrity call, with the configured
\* minimumSeats of the deliberation the audit is of: the Stage 1 audit of n
\* started tasks of which those in S succeeded, with the latency-outlier
\* anomalies its timings gave.
IntegrityInput(n, S, outliers, consensus, citations, stage3Anomalies, gaps, seats) ==
    [kind |-> "integrity",
     minimumSeats |-> seats,
     stage1Audit |->
         [buildStage1Audit([k \in 1..n |-> [modelId |-> ModelIds[k], success |-> k \in S]],
                           SubSeq(ModelIds, 1, n))
            EXCEPT !.anomalies = @ \o [k \in 1..outliers |-> Anomaly(1, "info", "latency-outlier")]],
     stage2Audit |-> [rankingConsensus |-> consensus,
                      anomalies |-> [k \in 1..citations |-> Anomaly(2, "warning", "citation-consensus")]],
     stage3Audit |-> [dissentSuppressed |->
                          IF \E k \in DOMAIN stage3Anomalies :
                                 stage3Anomalies[k].type = "dissent-suppression" THEN 1 ELSE 0,
                      anomalies |-> stage3Anomalies],
     crossStageAnomalies |-> [k \in 1..gaps |-> Anomaly("cross-stage", "warning", "threshold-gap")],
     totalModels |-> n]

\* Math.ceil(n / 2).
CeilHalf(n) == (n + 1) \div 2

\* r.ranking[0]: undefined when the ranking is empty.
TopPick(ranking) == IF ranking = <<>> THEN "undefined" ELSE ranking[1]

\* buildStage2Audit: the ranking consensus tier, from new Set(topPicks).size.
rankingConsensusHalfRoundedDown(peerReviews) ==
    LET uniqueTopPicks == Cardinality({TopPick(peerReviews[k].ranking) : k \in DOMAIN peerReviews}) IN
      IF uniqueTopPicks = 1 THEN "strong"
      ELSE IF uniqueTopPicks <= Len(peerReviews) \div 2 THEN "moderate"
      ELSE IF uniqueTopPicks < Len(peerReviews) THEN "weak"
      ELSE "none"
rankingConsensus(peerReviews) ==
    LET uniqueTopPicks == Cardinality({TopPick(peerReviews[k].ranking) : k \in DOMAIN peerReviews}) IN
      IF uniqueTopPicks = 1 THEN "strong"
      ELSE IF uniqueTopPicks <= CeilHalf(Len(peerReviews)) THEN "moderate"
      ELSE IF uniqueTopPicks < Len(peerReviews) THEN "weak"
      ELSE "none"

\* The rankings of the reviews whose consensus is computed.
TopPickRankings == {<<>>, <<"A">>, <<"B", "A">>, <<"C">>, <<"D">>}

\* The names a model gives a threshold issue, and issue.issue?.toLowerCase()
\* of each.
IssueNames == {"standing", "Standing", "venue"}
Normalized(issue) == IF issue = "Standing" THEN "standing" ELSE issue

\* The thresholdIssues of an analysis: up to MaxIssues items { issue: name }.
MaxIssues == 2
IssueLists == UNION {[1..k -> IssueNames] : k \in 0..MaxIssues}

\* The keys of thresholdCounts in insertion order: every normalized issue
\* name, in the order the analyses and their items are walked.
RECURSIVE ThresholdKeys(_, _, _)
ThresholdKeys(analyses, k, seen) ==
    IF k > Len(analyses) THEN <<>>
    ELSE LET items == analyses[k].structured.thresholdIssues.items
             names == [j \in DOMAIN items |-> Normalized(items[j])]
             fresh == SelectSeq(names, LAMBDA x : x \notin seen)
             first == SelectSeq([j \in DOMAIN fresh |->
                                    IF \E i \in 1..(j - 1) : fresh[i] = fresh[j] THEN "" ELSE fresh[j]],
                                LAMBDA x : x # "")
         IN first \o ThresholdKeys(analyses, k + 1, seen \cup {names[j] : j \in DOMAIN names})

\* thresholdCounts.get(issue): the label of an analysis once per item of that
\* name it lists.
RECURSIVE Identifiers(_, _, _)
Identifiers(analyses, issue, k) ==
    IF k > Len(analyses) THEN <<>>
    ELSE LET hits == SelectSeq(analyses[k].structured.thresholdIssues.items,
                               LAMBDA x : Normalized(x) = issue)
         IN [j \in DOMAIN hits |-> analyses[k].label] \o Identifiers(analyses, issue, k + 1)

\* detectCrossStageAnomalies: the threshold-gap anomalies, one per issue with
\* identifiers.length >= Math.ceil(analyses.length / 2) and a non-empty list
\* of analyses whose label is not among the identifiers.
RECURSIVE ThresholdGaps(_, _)
ThresholdGaps(analyses, keys) ==
    IF keys = <<>> THEN <<>>
    ELSE LET identifiers == Identifiers(analyses, Head(keys), 1)
             missers == SelectSeq(Labels(analyses),
                                  LAMBDA l : \A j \in DOMAIN identifiers : identifiers[j] # l)
         IN (IF Len(identifiers) >= CeilHalf(Len(analyses)) /\ missers # <<>>
             THEN <<[stage |-> "cross-stage", severity |-> "warning", type |-> "threshold-gap",
                     issue |-> Head(keys), affectedModels |-> missers]>>
             ELSE <<>>)
            \o ThresholdGaps(analyses, Tail(keys))

\* An audit is built of a deliberation that passed the Stage 1 quorum check.
InitAudit ==
    /\ NoDispatcher
    /\ NoDeliberation
    /\ \/ \E n \in 1..MaxModels :
            \E assessments \in [1..n -> Assessments], dissent \in 0..MaxModels,
               reliance \in [1..n -> 0..1] :
              \E rankings \in {<<>>, RankedInOrder(Labels(AssessedAnalyses(assessments))),
                                RankedInOrder(Reverse(Labels(AssessedAnalyses(assessments))))} :
                args = Stage3AuditInput(assessments, dissent, reliance, rankings)
       \/ \E n \in 2..MaxModels, seats \in SeatSettings :
            \E S \in {T \in SUBSET (1..n) : Cardinality(T) >= MinQuorum(seats)} :
              \E outliers \in 0..1, consensus \in {"strong", "moderate", "weak", "none"},
                 citations \in 0..1, stage3Anomalies \in Stage3AnomalySets, gaps \in 0..2 :
                args = IntegrityInput(n, S, outliers, consensus, citations, stage3Anomalies, gaps, seats)
       \/ \E n \in 0..MaxRanked :
            \E rankings \in [1..n -> TopPickRankings] :
              args = [kind |-> "stage2",
                      peerReviews |-> [k \in 1..n |-> [reviewerLabel |-> Letters[k],
                                                        ranking |-> rankings[k]]]]
       \/ \E n \in 1..MaxModels :
            \E issues \in [1..n -> IssueLists] :
              args = [kind |-> "cross-stage",
                      analyses |-> [k \in 1..n |->
                          [label |-> Letters[k],
                           structured |-> [thresholdIssues |-> [isArray |-> TRUE, items |-> issues[k]]]]]]
    /\ ret = Null

\* buildAudit calls buildStage3Audit.
CallBuildStage3Audit ==
    /\ args.kind = "stage3"
    /\ ret = Null
    /\ ret' = buildStage3Audit(args.stage1, args.stage2, args.stage3, args.reliance)
    /\ UNCHANGED <<wclVars, ctlVars, args>>

\* buildAudit calls calculateProcessIntegrity.
CallCalculateProcessIntegrity ==
    /\ args.kind = "integrity"
    /\ ret = Null
    /\ ret' = calculateProcessIntegrity(args.stage1Audit, args.stage2Audit, args.stage3Audit,
                                        args.crossStageAnomalies, args.totalModels)
    /\ UNCHANGED <<wclVars, ctlVars, args>>

\* buildAudit calls buildStage2Audit.
CallBuildStage2Audit ==
    /\ args.kind = "stage2"
    /\ ret = Null
    /\ ret' = [reviewsCompleted |-> Len(args.peerReviews),
               rankingConsensus |-> rankingConsensus(args.peerReviews)]
    /\ UNCHANGED <<wclVars, ctlVars, args>>

\* buildAudit calls detectCrossStageAnomalies.
CallDetectCrossStageAnomalies ==
    /\ args.kind = "cross-stage"
    /\ ret = Null
    /\ ret' = [anomalies |-> ThresholdGaps(args.analyses, ThresholdKeys(args.analyses, 1, {}))]
    /\ UNCHANGED <<wclVars, ctlVars, args>>

NextAudit ==
    \/ CallBuildStage3Audit
    \/ CallCalculateProcessIntegrity
    \/ CallBuildStage2Audit
    \/ CallDetectCrossStageAnomalies

SpecAudit == InitAudit /\ [][NextAudit]_vars

\* ------------------------------------------- the tasks of the stages alone

\* A parsed Stage 1 response whose confidence is a string outside the enum.
OutOfEnumJson ==
    [confidence |-> "certain", thresholdIssues |-> [isArray |-> TRUE, items |-> <<IssueObject>>]]

\* What a reviewer's call gives, with two more contents that fail the schema:
\* JSON null (queryModelJson returns whatever JSON.parse returns), and an
\* object without evaluations whose ranking is an array of strings.
SalvageStage2Responses(labels) ==
    Stage2Responses(labels)
    \cup {[kind |-> "null", rankingIsArray |-> FALSE, ranking |-> <<>>],
          [kind |-> "invalid", rankingIsArray |-> TRUE, ranking |-> Reverse(labels)]}

\* One task of one stage is run for one member of a council of MaxModels.
InitSalvage ==
    /\ NoDispatcher
    /\ NoDeliberation
    /\ \E i \in 0..(MaxModels - 1) :
         LET member == assignLabels(SubSeq(ModelIds, 1, MaxModels))[i] IN
           \/ \E r \in Stage1Responses \cup {[kind |-> "json", json |-> OutOfEnumJson]} :
                args = [kind |-> "stage1", member |-> member, r |-> r]
           \/ \E n \in 1..MaxModels :
                \E r \in SalvageStage2Responses(SubSeq(Letters, 1, n)) :
                  args = [kind |-> "stage2", member |-> member, r |-> r,
                          labels |-> SubSeq(Letters, 1, n)]
           \/ \E r \in Stage3Responses :
                args = [kind |-> "stage3", member |-> member, r |-> r]
    /\ ret = Null

\* The task of runStage1 for args.member, after its agent loop.
CallStage1Task ==
    /\ args.kind = "stage1"
    /\ ret = Null
    /\ ret' = Stage1TaskResult(args.member, args.r)
    /\ UNCHANGED <<wclVars, ctlVars, args>>

\* The task of runStage2 for args.member, after its call.
CallStage2Task ==
    /\ args.kind = "stage2"
    /\ ret = Null
    /\ ret' = Stage2TaskResult(args.member, args.r, args.labels)
    /\ UNCHANGED <<wclVars, ctlVars, args>>

\* runStage3WithChairman with args.member as chairman.
CallRunStage3WithChairman ==
    /\ args.kind = "stage3"
    /\ ret = Null
    /\ ret' = Stage3Result(args.member.modelId, args.r)
    /\ UNCHANGED <<wclVars, ctlVars, args>>

NextSalvage == CallStage1Task \/ CallStage2Task \/ CallRunStage3WithChairman

SpecSalvage == InitSalvage /\ [][NextSalvage]_vars

\* ------------------------------------------- retries and the Stage 1 audit

DEFAULT_MAX_RETRIES == 3

\* What one attempt of executeRequest gives: a response, an error
\* isRetryableError accepts (a time-out, status 429 or 5xx, a network error),
\* or any other error.
AttemptOutcomes == {"response", "retryable", "fatal"}

\* OpenRouterClient.queryModel from attempt on: the loop returns the first
\* response, and throws at an error that is not retryable or that comes at
\* attempt maxRetries. retries is the number of attempts made after the first.
RECURSIVE queryModel(_, _)
queryModel(outcomes, attempt) ==
    IF outcomes[attempt + 1] = "response" THEN [kind |-> "response", retries |-> attempt]
    ELSE IF attempt >= DEFAULT_MAX_RETRIES \/ outcomes[attempt + 1] = "fatal"
    THEN [kind |-> "throw", retries |-> attempt]
    ELSE queryModel(outcomes, attempt + 1)

\* The number of members whose calls are followed.
MaxCallers == 2

\* buildStage1Audit: a retry-excessive warning per entry of stage1Metrics
\* with retries >= 2.
RetryExcessive(metrics) ==
    SelectSeq([k \in DOMAIN metrics |->
                  [stage |-> 1, severity |-> "warning", type |-> "retry-excessive",
                   affectedModels |-> <<metrics[k].modelId>>, retries |-> metrics[k].retries]],
              LAMBDA a : a.retries >= 2)

\* Each member's call sees a sequence of attempt outcomes.
InitRetry ==
    /\ NoDispatcher
    /\ NoDeliberation
    /\ \E outcomes \in [1..MaxCallers -> [1..(DEFAULT_MAX_RETRIES + 1) -> AttemptOutcomes]] :
         args = [kind |-> "retry", outcomes |-> outcomes]
    /\ ret = Null

\* runStage1 for every member: recordStage1Start (retries: 0), the member's
\* call with the client's retries, then recordStage1Complete or
\* recordStage1Failure. Nothing calls recordStage1Retry. performed is the
\* number of retries the client made for the member.
RunStage1Calls ==
    /\ args.kind = "retry"
    /\ ret = Null
    /\ ret' = [metrics |-> [k \in DOMAIN args.outcomes |->
                              [modelId |-> ModelIds[k], retries |-> 0,
                               success |-> queryModel(args.outcomes[k], 0).kind = "response"]],
               performed |-> [k \in DOMAIN args.outcomes |-> queryModel(args.outcomes[k], 0).retries],
               audit |-> Null]
    /\ UNCHANGED <<wclVars, ctlVars, args>>

\* buildStage1Audit: perModelMetrics of the successful entries, and the
\* retry-excessive warnings.
BuildStage1AuditRetries ==
    /\ args.kind = "retry"
    /\ ret # Null
    /\ ret.audit = Null
    /\ ret' = [ret EXCEPT !.audit =
                  [perModelMetrics |-> SelectSeq([k \in DOMAIN ret.metrics |->
                                                     [modelId |-> ret.metrics[k].modelId,
                                                      success |-> ret.metrics[k].success,
                                                      retries |-> ret.metrics[k].retries]],
                                                 LAMBDA m : m.success),
                   anomalies |-> RetryExcessive(ret.metrics)]]
    /\ UNCHANGED <<wclVars, ctlVars, args>>

NextRetry == RunStage1Calls \/ BuildStage1AuditRetries

SpecRetry == InitRetry /\ [][NextRetry]_vars

\* ------------------------------- two deliberate() calls on one orchestrator

\* The sessions followed, by the sessionId crypto.randomUUID() gives each.
SessionIds == {"s1", "s2"}

\* The model calls followed in one session.
MaxSessionCalls == 2

\* The orchestrator has run no deliberate() yet: this.usageTracker and
\* this.auditCollector are null.
InitSessions ==
    /\ NoDispatcher
    /\ NoDeliberation
    /\ \E n \in [SessionIds -> 1..MaxSessionCalls] : args = [kind |-> "sessions", calls |-> n]
    /\ ret = [usageTracker |-> Null,
              auditCollector |-> Null,
              pc |-> [id \in SessionIds |-> "idle"],
              made |-> [id \in SessionIds |-> 0],
              result |-> [id \in SessionIds |-> Null]]

\* deliberate() is called: this.usageTracker = new UsageTracker(sessionId),
\* this.auditCollector = new AuditCollector(sessionId), then the call runs to
\* its first await. The fields belong to the orchestrator, not to the call.
DeliberateCalled(id) ==
    /\ args.kind = "sessions"
    /\ ret.pc[id] = "idle"
    /\ ret' = [ret EXCEPT !.usageTracker = [kind |-> "tracker", sessionId |-> id, records |-> <<>>],
                          !.auditCollector = [kind |-> "collector", sessionId |-> id, records |-> <<>>],
                          !.pc[id] = "running"]
    /\ UNCHANGED <<wclVars, ctlVars, args>>

\* A model call of session id settles: its task calls
\* this.usageTracker.recordUsage(...) and this.auditCollector?.recordStage1Complete(...)
\* on whatever the fields hold now. A record is marked with the session
\* whose task wrote it.
SessionCallSettles(id) ==
    /\ args.kind = "sessions"
    /\ ret.pc[id] = "running"
    /\ ret.made[id] < args.calls[id]
    /\ ret' = [ret EXCEPT !.usageTracker.records = Append(@, id),
                          !.auditCollector.records = Append(@, id),
                          !.made[id] = @ + 1]
    /\ UNCHANGED <<wclVars, ctlVars, args>>

\* The session's calls are over: this.usageTracker.getSummary(),
\* this.auditCollector.buildAudit(...) and constructDeliberation with the
\* call's own sessionId.
DeliberateReturns(id) ==
    /\ args.kind = "sessions"
    /\ ret.pc[id] = "running"
    /\ ret.made[id] = args.calls[id]
    /\ ret' = [ret EXCEPT !.pc[id] = "done",
                          !.result[id] = [kind |-> "deliberation",
                                          sessionId |-> id,
                                          usage |-> [sessionId |-> ret.usageTracker.sessionId,
                                                     records |-> ret.usageTracker.records],
                                          audit |-> [sessionId |-> ret.auditCollector.sessionId,
                                                     records |-> ret.auditCollector.records]]]
    /\ UNCHANGED <<wclVars, ctlVars, args>>

NextSessions ==
    \E id \in SessionIds : DeliberateCalled(id) \/ SessionCallSettles(id) \/ DeliberateReturns(id)

SpecSessions == InitSessions /\ [][NextSessions]_vars

\* ------------------------------------------------------------ usage tracking

\* The recordUsage calls followed.
MaxRecords == 4

TokenUsage(promptTokens, completionTokens, totalTokens) ==
    [promptTokens |-> promptTokens, completionTokens |-> completionTokens, totalTokens |-> totalTokens]

AddUsage(a, b) ==
    TokenUsage(a.promptTokens + b.promptTokens, a.completionTokens + b.completionTokens,
               a.totalTokens + b.totalTokens)

\* The usage argument of recordUsage: undefined, or the provider's counts.
UsageArguments ==
    {[kind |-> "undefined"],
     [kind |-> "usage", tokens |-> TokenUsage(3, 4, 7)],
     [kind |-> "usage", tokens |-> TokenUsage(500, 0, 500)]}

\* if (!usage) usage = { promptTokens: 500, completionTokens: 1000, totalTokens: 1500 }.
UsageOrEstimate(usage) ==
    IF usage.kind = "undefined" THEN TokenUsage(500, 1000, 1500) ELSE usage.tokens

\* new UsageTracker(sessionId): the session's counters (token counts only).
NewSession ==
    [byModel |-> <<>>,
     byStage |-> [stage \in 1..3 |-> TokenUsage(0, 0, 0)],
     totals |-> TokenUsage(0, 0, 0)]

\* The index in byModel of the entry of modelId, 0 if there is none.
ModelEntry(byModel, modelId) ==
    IF \E k \in DOMAIN byModel : byModel[k].modelId = modelId
    THEN CHOOSE k \in DOMAIN byModel : byModel[k].modelId = modelId
    ELSE 0

\* UsageTracker.recordUsage: the model's entry, the stage's counters and the
\* totals all grow by the usage, or by the estimate when there is none.
recordUsageReplacingModelEntry(session, modelId, stage, usage) ==
    LET u == UsageOrEstimate(usage)
        k == ModelEntry(session.byModel, modelId)
    IN [byModel |-> IF k # 0
                    THEN [session.byModel EXCEPT ![k] = [modelId |-> modelId, calls |-> 1, usage |-> u]]
                    ELSE Append(session.byModel, [modelId |-> modelId, calls |-> 1, usage |-> u]),
        byStage |-> [session.byStage EXCEPT ![stage] = AddUsage(@, u)],
        totals |-> AddUsage(session.totals, u)]
recordUsage(session, modelId, stage, usage) ==
    LET u == UsageOrEstimate(usage)
        k == ModelEntry(session.byModel, modelId)
    IN [byModel |-> IF k # 0
                    THEN [session.byModel EXCEPT ![k].calls = @ + 1, ![k].usage = AddUsage(@, u)]
                    ELSE Append(session.byModel, [modelId |-> modelId, calls |-> 1, usage |-> u]),
        byStage |-> [session.byStage EXCEPT ![stage] = AddUsage(@, u)],
        totals |-> AddUsage(session.totals, u)]

\* A tracker as deliberate() creates it. recorded, estimated and given count
\* the calls made, those without usage data, and the usage data given.
InitUsage ==
    /\ NoDispatcher
    /\ NoDeliberation
    /\ args = [kind |-> "usage"]
    /\ ret = [session |-> NewSession, recorded |-> 0, estimated |-> 0, given |-> TokenUsage(0, 0, 0)]

\* A task calls this.usageTracker.recordUsage(modelId, stage, usage). The
\* method has no await: the calls of concurrent tasks run one after another,
\* in any order.
RecordUsage(modelId, stage, usage) ==
    /\ args.kind = "usage"
    /\ ret.recorded < MaxRecords
    /\ ret' = [session |-> recordUsage(ret.session, modelId, stage, usage),
               recorded |-> ret.recorded + 1,
               estimated |-> ret.estimated + (IF usage.kind = "undefined" THEN 1 ELSE 0),
               given |-> IF usage.kind = "undefined" THEN ret.given ELSE AddUsage(ret.given, usage.tokens)]
    /\ UNCHANGED <<wclVars, ctlVars, args>>

NextUsage ==
    \E k \in 1..MaxCallers, stage \in 1..3, usage \in UsageArguments :
        RecordUsage(ModelIds[k], stage, usage)

SpecUsage == InitUsage /\ [][NextUsage]_vars

\* ------------------------------------------------------------ the agent loop

\* runAgentLoop(..., maxTurns = 5).
maxTurns == 5

\* What queryModel gives in a turn: a throw, a response with no tool_calls,
\* or a response whose tool_calls name a tool of ALL_TOOLS ("known"), a tool
\* that is not there ("unknown"), or a known tool with arguments that are
\* not JSON ("badArguments").
TurnResponses ==
    {[kind |-> "throw", tool_calls |-> <<>>],
     [kind |-> "response", tool_calls |-> <<>>],
     [kind |-> "response", tool_calls |-> <<"known">>],
     [kind |-> "response", tool_calls |-> <<"unknown">>],
     [kind |-> "response", tool_calls |-> <<"badArguments", "known">>]}

\* A member's loop: where it is suspended, the turn, the queryModel calls
\* made, the tool calls of the current response still to run, the tool
\* results and tool errors pushed on messages, and what the loop threw.
LoopState(at, turn, made, pending, toolResults, toolErrors, thrown) ==
    [pc |-> at, turn |-> turn, calls |-> made, pending |-> pending,
     toolResults |-> toolResults, toolErrors |-> toolErrors, thrown |-> thrown]

\* The for statement goes to its next turn: turn++, then either the next
\* queryModel call or, at maxTurns, the throw after the loop.
NextTurnOneMore(m) ==
    IF m.turn + 1 <= maxTurns
    THEN LoopState("query", m.turn + 1, m.calls + 1, <<>>, m.toolResults, m.toolErrors, "none")
    ELSE LoopState("failed", m.turn + 1, m.calls, <<>>, m.toolResults, m.toolErrors,
                   "Agent loop exceeded max turns")
NextTurn(m) ==
    IF m.turn + 1 < maxTurns
    THEN LoopState("query", m.turn + 1, m.calls + 1, <<>>, m.toolResults, m.toolErrors, "none")
    ELSE LoopState("failed", m.turn + 1, m.calls, <<>>, m.toolResults, m.toolErrors,
                   "Agent loop exceeded max turns")

\* for (const call of response.tool_calls) up to the next await: an unknown
\* tool is skipped, arguments that do not parse push a [TOOL ERROR] message,
\* a known tool is executed and awaited; after the last call the turn ends.
RECURSIVE RunToolCalls(_)
RunToolCalls(m) ==
    IF m.pending = <<>> THEN NextTurn(m)
    ELSE IF Head(m.pending) = "unknown" THEN RunToolCalls([m EXCEPT !.pending = Tail(@)])
    ELSE IF Head(m.pending) = "badArguments"
    THEN RunToolCalls([m EXCEPT !.pending = Tail(@), !.toolErrors = @ + 1])
    ELSE [m EXCEPT !.pc = "tool"]

\* runStage1 has started every member's task and each loop awaits its first
\* queryModel call.
InitAgentLoop ==
    /\ NoDispatcher
    /\ NoDeliberation
    /\ args = [kind |-> "agent-loop"]
    /\ ret = [members |-> [i \in 1..MaxCallers |-> LoopState("query", 0, 1, <<>>, 0, 0, "none")],
              errors |-> <<>>]

\* The catch of the member's Stage 1 task.
TaskFails(i, message) == Append(ret.errors, StageError(1, ModelIds[i], message, TRUE))

\* Member i's queryModel call settles.
QueryModelSettles(i, response) ==
    /\ args.kind = "agent-loop"
    /\ ret.members[i].pc = "query"
    /\ LET m == ret.members[i]
           after == IF response.kind = "throw" THEN [m EXCEPT !.pc = "failed", !.thrown = "call failed"]
                    ELSE IF response.tool_calls = <<>> THEN [m EXCEPT !.pc = "returned"]
                    ELSE RunToolCalls([m EXCEPT !.pending = response.tool_calls])
       IN ret' = [members |-> [ret.members EXCEPT ![i] = after],
                  errors |-> IF after.pc = "failed" THEN TaskFails(i, after.thrown) ELSE ret.errors]
    /\ UNCHANGED <<wclVars, ctlVars, args>>

\* The tool.execute call member i awaits settles: its result, or what it
\* threw, is pushed on messages and the for over the tool calls goes on.
ToolSettles(i, throws) ==
    /\ args.kind = "agent-loop"
    /\ ret.members[i].pc = "tool"
    /\ LET m == ret.members[i]
           after == RunToolCalls([m EXCEPT !.pending = Tail(@),
                                           !.toolResults = @ + (IF throws THEN 0 ELSE 1),
                                           !.toolErrors = @ + (IF throws THEN 1 ELSE 0)])
       IN ret' = [members |-> [ret.members EXCEPT ![i] = after],
                  errors |-> IF after.pc = "failed" THEN TaskFails(i, after.thrown) ELSE ret.errors]
    /\ UNCHANGED <<wclVars, ctlVars, args>>

NextAgentLoop ==
    \E i \in 1..MaxCallers :
        \/ \E response \in TurnResponses : QueryModelSettles(i, response)
        \/ \E throws \in BOOLEAN : ToolSettles(i, throws)

SpecAgentLoop == InitAgentLoop /\ [][NextAgentLoop]_vars

\* ------------------------------------------------------------------ claims

\* The configured minimum m: config.minimumSeats, a falsy setting counting as 2.
RequiredSeats == IF config.minimumSeats = 0 THEN 2 ELSE config.minimumSeats

StageCalls(stage) == {c \in calls : c[1] = stage}

\* C1: if Stage 1 ended with fewer than m successful analyses, deliberate()
\* has thrown CouncilQuorumError with actualCount the number of successes and
\* requiredCount m, and no Stage 2 model call has been dispatched.
C1_Stage1QuorumFailure ==
    /\ (stage1 # Null /\ pc # "quorum-check-1" /\ Len(stage1.analyses) < RequiredSeats) =>
          /\ pc = "aborted"
          /\ outcome.kind = "thrown" /\ outcome.error = "CouncilQuorumError"
          /\ outcome.actualCount = Len(stage1.analyses)
          /\ outcome.requiredCount = RequiredSeats
          /\ StageCalls(2) = {} /\ stage2 = Null
    /\ (stage1 # Null /\ pc = "quorum-check-1") => StageCalls(2) = {}

\* C1 witness: under the default minimum (minimumSeats unset, so 2) the Stage 1
\* calls were made, one analysis succeeded, and the quorum error was thrown.
C1_Witness ==
    /\ pc = "aborted" /\ outcome.kind = "thrown" /\ outcome.from = "quorum-check-1"
    /\ config.minimumSeats = 0
    /\ Len(stage1.analyses) = 1 /\ outcome.actualCount = 1 /\ outcome.requiredCount = 2
    /\ Cardinality(StageCalls(1)) = Len(config.councilModels)

\* C2: if Stage 1 met the quorum and Stage 2 ended with fewer than m reviews,
\* deliberate() has thrown CouncilQuorumError carrying the number of reviews,
\* m and the Stage 2 errors; no chairman was selected and no Stage 3 call made.
C2_Stage2QuorumFailure ==
    /\ (stage2 # Null /\ pc # "quorum-check-2" /\ Len(stage2.peerReviews) < RequiredSeats) =>
          /\ Len(stage1.analyses) >= RequiredSeats
          /\ pc = "aborted"
          /\ outcome.kind = "thrown" /\ outcome.error = "CouncilQuorumError"
          /\ outcome.actualCount = Len(stage2.peerReviews)
          /\ outcome.requiredCount = RequiredSeats
          /\ outcome.underlyingErrors = stage2.errors
          /\ chairmanSelection = Null /\ stage3 = Null /\ StageCalls(3) = {}
    /\ (stage2 # Null /\ pc = "quorum-check-2") =>
          chairmanSelection = Null /\ StageCalls(3) = {}

\* C2 witness: three members passed Stage 1, two of the three reviews failed
\* under a minimum of 2, and the quorum error carries the two Stage 2 errors.
C2_Witness ==
    /\ pc = "aborted" /\ outcome.kind = "thrown" /\ outcome.from = "quorum-check-2"
    /\ Len(stage1.analyses) = 3
    /\ Len(stage2.peerReviews) = 1 /\ outcome.requiredCount = 2
    /\ Len(outcome.underlyingErrors) = 2

\* C3: started-and-unsettled tasks never exceed the limit L, nor min(L, K),
\* in any interleaving of task completions.
C3_InFlightWithinLimit ==
    /\ Cardinality(InFlight) <= limit
    /\ Cardinality(InFlight) <= Min(limit, NumTasks)

\* C3 witness: more tasks than the limit, the limit is fully used while a task
\* has already settled and another is still waiting for a worker.
C3_Witness ==
    /\ NumTasks > limit
    /\ Cardinality(InFlight) = limit
    /\ \E i \in DOMAIN task : Settled(i)
    /\ \E i \in DOMAIN task : task[i].st = "pending"

\* C4: the returned array has length K and slot i holds the outcome of task i,
\* never that of another task, whatever the completion order; until it is
\* returned a slot holds null or its own task's value.
C4_SlotHoldsOwnOutcome ==
    /\ disp.st # "idle" => DOMAIN disp.results = DOMAIN task
    /\ \A i \in DOMAIN disp.results : disp.results[i] \in {Null, TaskValue(i)}
    /\ disp.st = "resolved" => \A i \in DOMAIN task : disp.results[i] = OutcomeOf(i)

\* C4 witness: three tasks under limit 2 have been returned, the first having
\* failed and the later ones resolved.
C4_Witness ==
    /\ disp.st = "resolved"
    /\ NumTasks = 3 /\ limit = 2
    /\ task[0].st = "rejected" /\ task[1].st = "resolved" /\ task[2].st = "resolved"
    /\ disp.results = (0 :> Null) @@ (1 :> TaskValue(1)) @@ (2 :> TaskValue(2))

\* C5: when a task throws, the dispatcher does not reject and no worker stops;
\* once it returns, every task has been started, each resolved task's value is
\* in its own slot and each throwing task's slot is null.
C5_ThrowIsIsolated ==
    (\E j \in DOMAIN task : task[j].st = "rejected") =>
        /\ disp.st # "rejected"
        /\ ~SomeWorkerRejected(disp)
        /\ disp.st = "resolved" =>
              \A i \in DOMAIN task :
                  /\ task[i].starts >= 1
                  /\ task[i].st = "rejected" => disp.results[i] = Null
                  /\ task[i].st # "rejected" =>
                        task[i].st = "resolved" /\ disp.results[i] = TaskValue(i)

\* C5 witness: the first of three tasks threw, and the dispatcher returned with
\* the two later tasks' values in place.
C5_Witness ==
    /\ disp.st = "resolved"
    /\ NumTasks = 3
    /\ task[0].st = "rejected" /\ disp.results[0] = Null
    /\ disp.results[1] = TaskValue(1) /\ disp.results[2] = TaskValue(2)

\* C6: if every started task settles, a running dispatcher resolves; when it
\* has, each task was started exactly once and has settled; no task is ever
\* started twice.
C6_ResolvesAllStartedOnce ==
    /\ (disp.st = "running") ~> (disp.st = "resolved")
    /\ [](\A i \in DOMAIN task : task[i].starts <= 1)
    /\ [](disp.st = "resolved" => \A i \in DOMAIN task : task[i].starts = 1 /\ Settled(i))

\* C6 witness: the dispatcher resolved a list longer than the limit, so that a
\* worker claimed more than one index.
C6_Witness ==
    /\ disp.st = "resolved"
    /\ NumTasks > limit
    /\ \A i \in DOMAIN task : task[i].starts = 1 /\ Settled(i)

\* A Stage 1 task is unsettled: Stage 1 has not begun, or one of its tasks
\* has not settled (the task list holds the Stage 1 tasks until Stage 2 starts).
Stage1Unsettled ==
    \/ pc = "init"
    \/ pc \in {"stage1", "quorum-check-1"} /\ \E i \in DOMAIN task : ~Settled(i)

\* A Stage 2 task is unsettled: Stage 2 has not begun, or one of its tasks has
\* not settled.
Stage2Unsettled ==
    \/ pc \in {"init", "stage1", "quorum-check-1"}
    \/ pc \in {"stage2", "quorum-check-2"} /\ \E i \in DOMAIN task : ~Settled(i)

\* C7: a Stage 2 model call starts only when no Stage 1 task is unsettled; a
\* Stage 3 call starts only when every Stage 2 task has settled and the chairman
\* selection is computed, goes to the selected model, and is the only one.
C7_StagesAreBarriers ==
    [][/\ (StageCalls(2)' # StageCalls(2)) => ~Stage1Unsettled
       /\ (StageCalls(3)' # StageCalls(3)) =>
             /\ ~Stage1Unsettled /\ ~Stage2Unsettled
             /\ stage1 # Null /\ stage2 # Null
             /\ chairmanSelection' # Null
             /\ StageCalls(3)' = {<<3, chairmanSelection'.model>>}]_vars

\* C7 witness: three members under limit 2 made their Stage 1 calls, all three
\* reviewers were called in Stage 2, and the Stage 3 call is in flight.
C7_Witness ==
    /\ pc = "stage3" /\ limit = 2
    /\ Cardinality(StageCalls(1)) = 3 /\ Cardinality(StageCalls(2)) = 3
    /\ StageCalls(3) = {<<3, chairmanSelection.model>>}

\* The order of the controller's states.
StateOrder ==
    <<"init", "stage1", "quorum-check-1", "stage2", "quorum-check-2", "select-chairman",
      "stage3", "assemble", "done">>

\* C8: the controller only moves to the next state of the order, or to aborted
\* from the appropriateness check (no model call made) or from a quorum check.
C8_StateOrder ==
    [][pc' # pc =>
         \/ \E k \in 1..(Len(StateOrder) - 1) : pc = StateOrder[k] /\ pc' = StateOrder[k + 1]
         \/ pc' = "aborted" /\ pc = "init" /\ calls' = {}
         \/ pc' = "aborted" /\ pc \in {"quorum-check-1", "quorum-check-2"}]_vars

\* Both quorum checks have passed.
QuorumsPassed ==
    /\ stage1 # Null /\ stage2 # Null
    /\ pc \notin {"init", "stage1", "quorum-check-1", "stage2", "quorum-check-2"}
    /\ Len(stage1.analyses) >= minQuorum /\ Len(stage2.peerReviews) >= minQuorum

\* C9: once both quorum checks have passed deliberate() never throws, and
\* when it has ended it has returned a result.
C9_NoThrowAfterQuorums ==
    QuorumsPassed =>
        /\ outcome.kind # "thrown"
        /\ pc # "aborted"

\* C10: when the Stage 3 call has failed and deliberate() has gone through
\* assembly, it has returned a result whose stage3 is incomplete with the empty
\* synthesis and exactly one error, not recoverable and naming the chairman
\* model, together with the Stage 1 and Stage 2 results and the audit.
C10_Stage3FailureStillReturns ==
    (stage3 # Null /\ ~stage3.complete /\ pc # "assemble") =>
        /\ pc = "done"
        /\ outcome.kind = "returned"
        /\ outcome.stageResults.stage3.complete = FALSE
        /\ outcome.stageResults.stage3.synthesis = getEmptySynthesis
        /\ Len(outcome.stageResults.stage3.errors) = 1
        /\ outcome.stageResults.stage3.errors[1].recoverable = FALSE
        /\ outcome.stageResults.stage3.errors[1].modelId = chairmanSelection.model
        /\ outcome.stageResults.stage1 = stage1
        /\ outcome.stageResults.stage2 = stage2
        /\ outcome.audit.chairmanSelection = chairmanSelection

Range(seq) == {seq[k] : k \in DOMAIN seq}

\* The model identifiers of the council of the two runs.
CouncilIds == Range(args.models1) \cup Range(args.models2)

\* C11: the system and user prompts of Stage 2 contain no council member's
\* model identifier, and two runs that differ only in which model sits behind
\* which label build identical Stage 2 prompts.
C11_Stage2PromptsAnonymous ==
    ret # Null =>
        /\ ret.run1.stage2 = ret.run2.stage2
        /\ \A run \in {ret.run1, ret.run2} :
              (Range(run.stage2.system) \cup Range(run.stage2.user)) \cap CouncilIds = {}

\* C11 witness: three members seated in another order in the second run, all
\* three analyses present in the Stage 2 prompt.
C11_Witness ==
    /\ ret # Null
    /\ Len(args.models1) = 3
    /\ \A k \in 1..3 : args.models2[k] # args.models1[k]
    /\ \A i \in 0..2 : args.responses[i].kind = "json"
    /\ {"A", "B", "C"} \subseteq Range(ret.run1.stage2.user)

\* seq holds sub as a run of consecutive tokens.
Contains(seq, sub) ==
    \E i \in 0..(Len(seq) - Len(sub)) : SubSeq(seq, i + 1, i + Len(sub)) = sub

\* The four prompts of a run, and the analyses they were built from.
PromptTexts(run) == {run.stage2.system, run.stage2.user, run.stage3.system, run.stage3.user}

\* C12: no Stage 2 or Stage 3 prompt holds an analysis's internal-only fields:
\* neither its model identifier nor its serialized structured payload.
C12_InternalFieldsNotSerialized ==
    ret # Null =>
        \A text \in PromptTexts(ret.run1) :
            \A k \in DOMAIN Stage1ResultOf(args.models1, args.responses).analyses :
                LET a == Stage1ResultOf(args.models1, args.responses).analyses[k] IN
                    /\ a.modelId \notin Range(text)
                    /\ ~Contains(text, SerializeJson(a.structured))

\* Three models are configured under a minimum of 2; Stage 1 has ended with one
\* member's call failed and the other two members' analyses schema-valid.
OneOfThreeFailedStage1 ==
    /\ Len(config.councilModels) = 3
    /\ stage1 # Null /\ pc # "quorum-check-1"
    /\ RequiredSeats = 2
    /\ Len(stage1.analyses) = 2 /\ Len(stage1.errors) = 1
    /\ \A k \in DOMAIN stage1.analyses : SchemaValid1(stage1.analyses[k].structured)

\* Every Stage 2 call has succeeded and no override is configured.
AllReviewsSucceeded ==
    /\ stage2 # Null /\ chairmanSelection # Null
    /\ Len(stage2.peerReviews) = 3 /\ stage2.errors = <<>>
    /\ config.chairmanOverrideModel = "undefined"

\* Some review ranks the label of one of the Stage 1 analyses.
SomeReviewRanksAnAnalysis ==
    \E k \in DOMAIN stage2.peerReviews, j \in DOMAIN stage1.analyses :
        stage1.analyses[j].label \in Range(stage2.peerReviews[k].ranking)

\* With 3 models, one Stage 1 failure and two valid analyses, the Stage 1
\* quorum check passes with 2 analyses; when the reviews are as required the
\* chairman is chosen with method algorithmic; when the Stage 3 call succeeds
\* too, deliberate() ends in done with a result whose stage3.complete is true.
OneFailureStillCompletes(reviewsAsRequired) ==
    /\ OneOfThreeFailedStage1 =>
          /\ stage2 = Null => pc = "stage2"
          /\ outcome.kind = "thrown" => outcome.from # "quorum-check-1"
    /\ (OneOfThreeFailedStage1 /\ reviewsAsRequired) =>
          /\ chairmanSelection.method = "algorithmic"
          /\ outcome.kind # "thrown"
    /\ (OneOfThreeFailedStage1 /\ reviewsAsRequired /\ stage3 # Null
            /\ stage3.complete /\ stage3.errors = <<>> /\ pc # "assemble") =>
          /\ pc = "done"
          /\ outcome.kind = "returned"
          /\ outcome.stageResults.stage3.complete
          /\ Len(outcome.stageResults.stage1.analyses) = 2

C13_NoLabelRanked ==
    /\ OneOfThreeFailedStage1 /\ AllReviewsSucceeded
    /\ ~SomeReviewRanksAnAnalysis
    /\ chairmanSelection.method = "fallback"

Selected == ret # Null /\ ret.selection # Null

\* The override names a model that produced a Stage 1 analysis.
EffectiveOverride ==
    /\ ret.userOverride # "undefined"
    /\ \E k \in DOMAIN args.stage1.analyses : args.stage1.analyses[k].modelId = ret.userOverride

\* The models that authored the analysis of a label.
AuthorsOf(label) ==
    {args.stage1.analyses[k].modelId :
        k \in {j \in DOMAIN args.stage1.analyses : args.stage1.analyses[j].label = label}}

\* C14: if an override is given and that model produced a Stage 1 analysis,
\* selectChairman returns it with method user-specified, whatever the rankings.
C14_OverrideOfParticipantWins ==
    (Selected /\ EffectiveOverride) =>
        /\ ret.selection.model = ret.userOverride
        /\ ret.selection.method = "user-specified"

\* C14 witness: the override is a participant while the rankings put another
\* member's analysis first.
C14_Witness ==
    /\ Selected /\ EffectiveOverride
    /\ ret.selection.model = ret.userOverride
    /\ Len(ret.stage2.aggregateRankings) > 1
    /\ ret.userOverride \notin AuthorsOf(ret.stage2.aggregateRankings[1].label)

\* C15: if the override model produced no Stage 1 analysis, selectChairman
\* returns a selection, the one it returns without any override, which is
\* algorithmic whenever the aggregate rankings are non-empty.
C15_AbsentOverrideFallsThrough ==
    (Selected /\ ret.userOverride # "undefined" /\ ~EffectiveOverride) =>
        /\ ret.selection = selectChairman(args.stage1, ret.stage2, "undefined")
        /\ ret.selection.method \in {"algorithmic", "fallback"}
        /\ ret.selection.model # ret.userOverride
        /\ Len(ret.stage2.aggregateRankings) > 0 => ret.selection.method = "algorithmic"

\* C15 witness: the override is a council member whose Stage 1 task failed,
\* and the selection is algorithmic.
C15_Witness ==
    /\ Selected
    /\ ret.userOverride = ModelIds[2] /\ ~EffectiveOverride
    /\ ret.selection.method = "algorithmic"

\* a's average rank is at most b's (rankSum / rankCount, cross-multiplied).
AtMost(a, b) == a.rankSum * b.rankCount <= b.rankSum * a.rankCount

\* C16: with no effective override and non-empty aggregate rankings the method
\* is algorithmic, the chairman is the author of a label of minimal averageRank,
\* and alternativesConsidered holds the min(3, number of ranked labels)
\* best-ranked candidates in rank order with their average ranks, the
\* chairman first.
C16_AlgorithmicPicksTopRanked ==
    (Selected /\ ~EffectiveOverride /\ Len(ret.stage2.aggregateRankings) > 0) =>
        LET rankings == ret.stage2.aggregateRankings
            alts == ret.selection.alternativesConsidered
        IN  /\ ret.selection.method = "algorithmic"
            /\ \E k \in DOMAIN rankings :
                  /\ ret.selection.model \in AuthorsOf(rankings[k].label)
                  /\ \A j \in DOMAIN rankings : AtMost(rankings[k], rankings[j])
            /\ Len(alts) = Min(3, Len(rankings))
            /\ \A k \in DOMAIN alts :
                  /\ alts[k].model \in AuthorsOf(rankings[k].label)
                  /\ alts[k].rankSum = rankings[k].rankSum
                  /\ alts[k].rankCount = rankings[k].rankCount
                  /\ \A j \in DOMAIN rankings : j >= k => AtMost(alts[k], rankings[j])
            /\ alts[1].model = ret.selection.model

\* C16 witness: four labels are ranked, with different average ranks, and the
\* three best are listed.
C16_Witness ==
    /\ Selected /\ ~EffectiveOverride
    /\ ret.selection.method = "algorithmic"
    /\ Len(ret.stage2.aggregateRankings) = 4
    /\ Len(ret.selection.alternativesConsidered) = 3
    /\ ~AtMost(ret.stage2.aggregateRankings[2], ret.stage2.aggregateRankings[1])

\* C17: with no effective override the method is fallback exactly when the
\* aggregate rankings are empty, and the model then returned is the author of
\* the first analysis in Stage 1 result order.
C17_FallbackIffNoRankings ==
    (Selected /\ ~EffectiveOverride) =>
        /\ ret.selection.method = "fallback" <=> Len(ret.stage2.aggregateRankings) = 0
        /\ ret.selection.method = "fallback" =>
              ret.selection.model = args.stage1.analyses[1].modelId

\* C17 witness: two reviews that rank no label, two analyses of which the
\* first is the second member's, and the fallback selection.
C17_Witness ==
    /\ Selected /\ ~EffectiveOverride
    /\ Len(ret.stage2.peerReviews) >= 2 /\ Len(ret.stage2.aggregateRankings) = 0
    /\ Len(args.stage1.analyses) = 2
    /\ args.stage1.analyses[1].modelId = ModelIds[2]
    /\ ret.userOverride = "undefined"
    /\ ret.selection.method = "fallback" /\ ret.selection.model = ModelIds[2]

\* The reviews whose ranking contains label.
Mentioning(label) ==
    {k \in DOMAIN args.peerReviews : label \in Range(args.peerReviews[k].ranking)}

\* The 1-indexed position of label in review k's ranking.
PositionIn(k, label) ==
    CHOOSE j \in DOMAIN args.peerReviews[k].ranking :
        /\ args.peerReviews[k].ranking[j] = label
        /\ \A i \in 1..(j - 1) : args.peerReviews[k].ranking[i] # label

RECURSIVE SumOver(_, _, _)
\* The sum of c * position - s over the reviews of S, squared when sq.
SumOver(S, label, f) ==
    IF S = {} THEN 0
    ELSE LET k == CHOOSE x \in S : TRUE
             d == f.c * PositionIn(k, label) - f.s
         IN  (IF f.sq THEN d * d ELSE d) + SumOver(S \ {k}, label, f)

\* The three reviews of the worked example over the analyses' labels.
ExampleReviews ==
    /\ Len(args.stage1.analyses) = 3
    /\ Len(args.peerReviews) = 3
    /\ args.peerReviews[1].ranking = Labels(args.stage1.analyses)
    /\ args.peerReviews[2].ranking = SwapFirstTwo(Labels(args.stage1.analyses))
    /\ args.peerReviews[3].ranking = Labels(args.stage1.analyses)

\* The aggregate ranking of the k-th analysis' label.
RankingOf(k) ==
    CHOOSE r \in Range(ret.stage2.aggregateRankings) : r.label = args.stage1.analyses[k].label

\* C20: each AggregateRanking has averageRank equal to the mean 1-indexed
\* position of its label over the reviews that contain it, and
\* rankingConsistency equal to max(0, 1 - variance / (N - 1)^2), 1 when N = 1,
\* so within [0, 1]; for the rankings [A,B,C], [B,A,C], [A,B,C] the averages
\* are 4/3, 5/3 and 3 and the consistencies 1 - (2/9)/4, 1 - (2/9)/4 and 1.
C20_AggregateRankingValues ==
    ret # Null =>
        /\ \A q \in DOMAIN ret.stage2.aggregateRankings :
             LET r == ret.stage2.aggregateRankings[q]
                 M == Mentioning(r.label)
                 c == Cardinality(M)
                 s == SumOver(M, r.label, [c |-> 1, s |-> 0, sq |-> FALSE])
                 \* sum of (c * p - s)^2 = c^3 * variance
                 V == SumOver(M, r.label, [c |-> c, s |-> s, sq |-> TRUE])
                 N == Len(args.stage1.analyses)
                 full == c * c * c * (N - 1) * (N - 1)
             IN  /\ c > 0
                 /\ r.rankCount = c
                 /\ r.rankSum = s
                 /\ r.consistencyDen > 0
                 /\ 0 <= r.consistencyNum /\ r.consistencyNum <= r.consistencyDen
                 /\ IF N = 1 THEN r.consistencyNum = r.consistencyDen
                    ELSE r.consistencyNum * full
                           = r.consistencyDen * (IF full - V > 0 THEN full - V ELSE 0)
        /\ ExampleReviews =>
             /\ Len(ret.stage2.aggregateRankings) = 3
             /\ RankingOf(1).rankSum * 3 = 4 * RankingOf(1).rankCount
             /\ RankingOf(2).rankSum * 3 = 5 * RankingOf(2).rankCount
             /\ RankingOf(3).rankSum = 3 * RankingOf(3).rankCount
             /\ RankingOf(1).consistencyNum * 36 = 34 * RankingOf(1).consistencyDen
             /\ RankingOf(2).consistencyNum * 36 = 34 * RankingOf(2).consistencyDen
             /\ RankingOf(3).consistencyNum = RankingOf(3).consistencyDen

\* C20 witness: the aggregate rankings of the worked example have been computed.
C20_Witness ==
    /\ ret # Null
    /\ ExampleReviews
    /\ Len(ret.stage2.aggregateRankings) = 3

\* A state where the variance of a label's positions exceeds (N - 1)^2.
C20_ClampedCase ==
    /\ ret # Null
    /\ Len(args.stage1.analyses) > 1
    /\ \E q \in DOMAIN ret.stage2.aggregateRankings :
          ret.stage2.aggregateRankings[q].consistencyNum = 0

\* The models that produced an analysis of this deliberation's Stage 1.
Stage1Authors == {stage1.analyses[k].modelId : k \in DOMAIN stage1.analyses}

\* C18: once a deliberation has reached Stage 3 its chairman is a configured
\* council model that produced a Stage 1 analysis in this deliberation: not an
\* override that did not participate, not a member whose Stage 1 task failed,
\* not the placeholder 'unknown'; and the Stage 3 call went to that model.
C18_ChairmanParticipated ==
    chairmanSelection # Null =>
        /\ chairmanSelection.model \in Range(config.councilModels)
        /\ chairmanSelection.model \in Stage1Authors
        /\ chairmanSelection.model \notin {Outsider, "unknown"}
        /\ (config.chairmanOverrideModel \notin Stage1Authors) =>
              chairmanSelection.model # config.chairmanOverrideModel
        /\ StageCalls(3) = {<<3, chairmanSelection.model>>}

\* C18 witness: the override names the second council member, whose Stage 1
\* task failed, and Stage 3 has been reached with another member as chairman.
C18_Witness ==
    /\ chairmanSelection # Null
    /\ config.chairmanOverrideModel = ModelIds[2]
    /\ ModelIds[2] \in Range(config.councilModels)
    /\ ModelIds[2] \notin Stage1Authors
    /\ \E k \in DOMAIN stage1.errors : stage1.errors[k].modelId = ModelIds[2]
    /\ pc \in {"stage3", "assemble", "done"}

\* A state of Stage 3 reached by the fallback method.
C18_FallbackCase ==
    /\ chairmanSelection # Null
    /\ chairmanSelection.method = "fallback"
    /\ config.chairmanOverrideModel = Outsider

\* C19, in a state: after both quorum checks and chairman selection there is
\* exactly one Stage 3 call, to the selected model, and every report of the
\* chairman that exists names that model.
C19_ReportsAgree ==
    (QuorumsPassed /\ pc # "select-chairman") =>
        /\ chairmanSelection # Null
        /\ StageCalls(3) = {<<3, chairmanSelection.model>>}
        /\ stage3 # Null => stage3.chairmanModel = chairmanSelection.model
        /\ outcome.kind = "returned" =>
              /\ outcome.stageResults.stage3.chairmanModel = chairmanSelection.model
              /\ outcome.chairmanModel = chairmanSelection.model
              /\ outcome.audit.stage3.chairmanModel = chairmanSelection.model
              /\ outcome.audit.chairmanSelection.model = chairmanSelection.model

\* C19, in a step: a Stage 3 call is made only by the step that selects the
\* chairman, when none was made before, and once it is made no step makes a
\* model call.
C19_CallsStep ==
    /\ (StageCalls(3)' # StageCalls(3)) =>
          /\ pc = "select-chairman" /\ pc' = "stage3"
          /\ StageCalls(3) = {}
          /\ Cardinality(StageCalls(3)') = 1
    /\ (StageCalls(3) # {}) => calls' = calls
    /\ (pc = "stage3") => pc' \in {"stage3", "assemble"}

\* C19: each deliberation that passes both quorum checks makes exactly one
\* Stage 3 model call, addressed to the model chairman selection returned;
\* stage3.chairmanModel, metadata.chairmanModel, _audit.stage3.chairmanModel
\* and _audit.chairmanSelection.selectedModel all equal that model; no model
\* call is made after the Stage 3 call.
C19_OneStage3Call == [](C19_ReportsAgree) /\ [][C19_CallsStep]_vars

\* C19 witness: a deliberation has returned with a chairman other than the
\* first configured model, after the Stage 1 and Stage 2 calls and one Stage 3
\* call.
C19_Witness ==
    /\ QuorumsPassed /\ pc = "done" /\ outcome.kind = "returned"
    /\ chairmanSelection.model # config.councilModels[1]
    /\ outcome.chairmanModel = chairmanSelection.model
    /\ outcome.audit.chairmanSelection.model = chairmanSelection.model
    /\ StageCalls(3) = {<<3, chairmanSelection.model>>}
    /\ StageCalls(1) # {} /\ StageCalls(2) # {}

\* The analyses that exist: those the settled Stage 1 tasks returned, and
\* those of the Stage1Result.
TaskAnalyses ==
    {i \in DOMAIN task : pc = "stage1" /\ task[i].st = "resolved" /\ task[i].val # Null}

\* C22, in a state: the i-th configured model has the i-th letter as its
\* label, every analysis carries the label and the model of the member whose
\* task produced it, and no two analyses of a Stage1Result share a label.
C22_LabelsPositional ==
    /\ \A i \in DOMAIN councilMembers :
          /\ councilMembers[i].modelId = config.councilModels[i + 1]
          /\ councilMembers[i].sessionLabel = Letters[i + 1]
    /\ \A i \in TaskAnalyses :
          /\ task[i].val.label = Letters[i + 1]
          /\ task[i].val.modelId = config.councilModels[i + 1]
    /\ stage1 # Null =>
          /\ \A k \in DOMAIN stage1.analyses :
                \E i \in DOMAIN councilMembers :
                    /\ stage1.analyses[k].label = Letters[i + 1]
                    /\ stage1.analyses[k].modelId = config.councilModels[i + 1]
          /\ \A k, j \in DOMAIN stage1.analyses :
                stage1.analyses[k].label = stage1.analyses[j].label => k = j

\* C22, in a step: the members and their labels never change.
C22_LabelsFixed == councilMembers' = councilMembers

\* C22: the i-th configured model receives the i-th letter as its label;
\* throughout a deliberation the label-to-member mapping never changes, every
\* IndividualAnalysis carries the label of the member that produced it, and no
\* two analyses of a Stage1Result share a label.
C22_StableLabels == [](C22_LabelsPositional) /\ [][C22_LabelsFixed]_vars

\* C22 witness: of three members the second failed, and the Stage1Result holds
\* the analyses labelled A and C of the first and the third.
C22_Witness ==
    /\ Len(config.councilModels) = 3
    /\ stage1 # Null /\ Len(stage1.analyses) = 2
    /\ stage1.analyses[1].label = "A" /\ stage1.analyses[1].modelId = ModelIds[1]
    /\ stage1.analyses[2].label = "C" /\ stage1.analyses[2].modelId = ModelIds[3]
    /\ pc = "done"

\* C27: a Stage 2 review call is made only to a member that has an analysis in
\* the Stage 1 result.
C27_OnlyAnalystsReview ==
    stage1 # Null =>
        \A c \in StageCalls(2) : \E k \in DOMAIN stage1.analyses : stage1.analyses[k].modelId = c[2]

\* C30: every PeerReview of a Stage2Result has a ranking without repeated
\* entries whose entries are all labels of Stage 1 analyses.
C30_RankingsArePermutations ==
    ret # Null =>
        \A k \in DOMAIN ret.stage2.peerReviews :
            LET ranking == ret.stage2.peerReviews[k].ranking IN
            /\ \A i, j \in DOMAIN ranking : ranking[i] = ranking[j] => i = j
            /\ Range(ranking) \subseteq Range(Labels(args.stage1.analyses))

\* The entries of a list of stage errors that name modelId.
ErrorsNaming(errs, modelId) == {k \in DOMAIN errs : errs[k].modelId = modelId}

\* C23: in every Stage1Result over K members, complete holds exactly when
\* there are K analyses; every member without an analysis has exactly one
\* entry in errors, so that analyses and errors together number K; and every
\* error is recoverable.
C23_Stage1Accounting ==
    stage1 # Null =>
        LET K == Len(config.councilModels) IN
        /\ stage1.complete <=> (Len(stage1.analyses) = K)
        /\ Len(stage1.analyses) + Len(stage1.errors) = K
        /\ \A i \in DOMAIN councilMembers :
              (\A k \in DOMAIN stage1.analyses :
                    stage1.analyses[k].modelId # councilMembers[i].modelId)
                 => Cardinality(ErrorsNaming(stage1.errors, councilMembers[i].modelId)) = 1
        /\ \A k \in DOMAIN stage1.errors : stage1.errors[k].recoverable

\* C29: deliberate() never ends with the error thrown by the progress
\* callback, as it cannot when no callback is installed.
C29_CallbackIsInert ==
    outcome.kind = "thrown" => outcome.error # "ProgressCallbackError"

\* The configured models with, and without, an analysis in a Stage1Result.
ModelsWithAnalysis(s1) == {s1.analyses[k].modelId : k \in DOMAIN s1.analyses}
ModelsWithoutAnalysis(s1) == Range(config.councilModels) \ ModelsWithAnalysis(s1)

\* C26, while Stage 1 runs: the collector marks a member successful exactly
\* when its settled task produced an analysis.
C26_MetricsFollowTasks ==
    pc = "stage1" =>
        \A i \in DOMAIN task :
            Settled(i) =>
                \E k \in DOMAIN stage1Metrics :
                    /\ stage1Metrics[k].modelId = councilMembers[i].modelId
                    /\ stage1Metrics[k].success <=> (task[i].val # Null)

AssessmentStrings(analyses) ==
    {analyses[k].assessment : k \in {j \in DOMAIN analyses : analyses[j].assessment # "missing"}}

\* The same, an analysis without an assessment counting as the empty string.
AssessmentPositions(analyses) ==
    AssessmentStrings(analyses)
    \cup (IF \E k \in DOMAIN analyses : analyses[k].assessment = "missing" THEN {""} ELSE {})

DissentWarnings(audit) ==
    {k \in DOMAIN audit.anomalies : audit.anomalies[k].type = "dissent-suppression"}

\* With U positions and D dissent entries: D < U - 1 gives one
\* dissent-suppression warning and dissentSuppressed = U - 1 - D, and
\* D >= U - 1 gives no dissent-suppression anomaly.
DissentAudited(U, D, audit) ==
    /\ D < U - 1 =>
          /\ Cardinality(DissentWarnings(audit)) = 1
          /\ \A k \in DissentWarnings(audit) : audit.anomalies[k].severity = "warning"
          /\ audit.dissentSuppressed = U - 1 - D
    /\ D >= U - 1 => DissentWarnings(audit) = {}

\* C24 as stated: U is the number of distinct assessment strings of the
\* Stage 1 analyses and D the number of dissent entries of the synthesis.
C24_AsStated ==
    (args.kind = "stage3" /\ ret # Null) =>
        DissentAudited(Cardinality(AssessmentStrings(args.stage1.analyses)),
                       args.stage3.synthesis.dissent, ret)

\* C24, amended: with U the number of distinct assessment strings of the
\* Stage 1 analyses, an analysis without an assessment counting as one with
\* the empty string, and D dissent entries in the synthesis: if D < U - 1 the
\* audit has a dissent-suppression warning with dissentSuppressed = U - 1 - D,
\* and if D >= U - 1 it has no dissent-suppression anomaly.
C24_DissentSuppression ==
    (args.kind = "stage3" /\ ret # Null) =>
        DissentAudited(Cardinality(AssessmentPositions(args.stage1.analyses)),
                       args.stage3.synthesis.dissent, ret)

\* C24 witness: three analyses with three different assessments and one
\* dissent entry; the audit warns of one suppressed position.
C24_Witness ==
    /\ args.kind = "stage3" /\ ret # Null
    /\ Cardinality(AssessmentStrings(args.stage1.analyses)) = 3
    /\ args.stage3.synthesis.dissent = 1
    /\ ret.dissentSuppressed = 1
    /\ DissentWarnings(ret) # {}

\* C25: the integrity score is low exactly when some anomaly is critical;
\* otherwise medium exactly when there are at least 3 warnings, or the number
\* of Stage 1 responders equals the quorum minimum of the deliberation, or the
\* ranking consensus is none; otherwise high.
C25_IntegrityScore ==
    (args.kind = "integrity" /\ ret # Null) =>
        LET all == args.stage1Audit.anomalies \o args.stage2Audit.anomalies
                   \o args.stage3Audit.anomalies \o args.crossStageAnomalies
            bareQuorum == Len(args.stage1Audit.modelsResponded) = MinQuorum(args.minimumSeats)
        IN  ret.score =
                IF CountSeverity(all, "critical") > 0 THEN "low"
                ELSE IF \/ CountSeverity(all, "warning") >= 3
                        \/ bareQuorum
                        \/ args.stage2Audit.rankingConsensus = "none"
                THEN "medium"
                ELSE "high"

\* C25 with the quorum minimum read as the audit's constant 2 whatever the
\* configuration says.
C25_ScoreAgainstConstant ==
    (args.kind = "integrity" /\ ret # Null) =>
        LET all == args.stage1Audit.anomalies \o args.stage2Audit.anomalies
                   \o args.stage3Audit.anomalies \o args.crossStageAnomalies
        IN  ret.score =
                IF CountSeverity(all, "critical") > 0 THEN "low"
                ELSE IF \/ CountSeverity(all, "warning") >= 3
                        \/ Len(args.stage1Audit.modelsResponded) = 2
                        \/ args.stage2Audit.rankingConsensus = "none"
                THEN "medium"
                ELSE "high"

\* The COUNCIL_MODEL_k variables that hold a model identifier.
ConfiguredSlots(env) == {k \in DOMAIN env : env[k] \notin {"unset", "  "}}

RankedLabels(reviews, analyses) ==
    {l \in Range(Labels(analyses)) : \E k \in DOMAIN reviews : l \in Range(reviews[k].ranking)}

\* C31: the aggregate rankings are in non-decreasing order of averageRank and
\* hold exactly one entry for each Stage 1 label that appears in some review's
\* ranking and none for anything else; a label no reviewer ranked is left out,
\* and with no review the list is empty.
C31_SortedRankedLabels ==
    ret # Null =>
        LET agg == ret.stage2.aggregateRankings
            reviews == ret.stage2.peerReviews
        IN  /\ \A k \in 1..(Len(agg) - 1) :
                  agg[k].rankSum * agg[k + 1].rankCount <= agg[k + 1].rankSum * agg[k].rankCount
            /\ {agg[k].label : k \in DOMAIN agg} = RankedLabels(reviews, args.stage1.analyses)
            /\ \A j, k \in DOMAIN agg : agg[j].label = agg[k].label => j = k
            /\ reviews = <<>> => agg = <<>>

\* C31 witness: of three analyses one is ranked by no review, and the other
\* two are listed with different average ranks, the better one first.
C31_Witness ==
    /\ ret # Null
    /\ Len(args.stage1.analyses) = 3
    /\ Len(ret.stage2.aggregateRankings) = 2
    /\ ret.stage2.aggregateRankings[1].rankSum * ret.stage2.aggregateRankings[2].rankCount
          < ret.stage2.aggregateRankings[2].rankSum * ret.stage2.aggregateRankings[1].rankCount

\* C31 witness of the empty case: no review was completed and the list is empty.
C31_NoReviews ==
    /\ ret # Null
    /\ ret.stage2.peerReviews = <<>>
    /\ ret.stage2.aggregateRankings = <<>>

\* C32: a reviewer whose Stage 2 content fails the schema still yields a
\* PeerReview (the task resolves with a review and pushes no error), whose
\* ranking is the returned ranking when that field is a list and the Stage 1
\* labels in order otherwise.
C32_InvalidReviewSalvaged ==
    (ret # Null /\ args.kind = "stage2" /\ args.r.kind \in {"invalid", "null"}) =>
        /\ ret.st = "resolved"
        /\ ret.errs = <<>>
        /\ ret.val # Null
        /\ ret.val.ranking = IF args.r.rankingIsArray THEN args.r.ranking ELSE args.labels

\* The content JSON null fails the schema and yields no review but an error.
C32_NullContentDropped ==
    /\ ret # Null
    /\ args.kind = "stage2"
    /\ args.r.kind = "null"
    /\ ret.val = Null
    /\ Len(ret.errs) = 1

\* C33: every IndividualAnalysis has a confidence in {low, medium, high}; a
\* schema-invalid response is kept, with confidence medium whenever the
\* field is missing or is not one of the three values.
C33_ConfidenceInEnum ==
    (ret # Null /\ args.kind = "stage1" /\ args.r.kind = "json") =>
        /\ ret.val # Null
        /\ ret.val.confidence \in {"low", "medium", "high"}
        /\ (args.r.json.confidence \notin {"low", "medium", "high"}) => ret.val.confidence = "medium"

\* A salvaged analysis carries the confidence "certain".
C33_OutOfEnumKept ==
    /\ ret # Null
    /\ args.kind = "stage1"
    /\ args.r.kind = "json"
    /\ args.r.json.confidence = "certain"
    /\ ret.val.confidence = "certain"

\* C34: a chairman response that fails the Stage 3 schema gives, without a
\* throw, a synthesis in which every absent or malformed field has its empty
\* default (false, the empty string, the empty list), with exactly one error,
\* recoverable.
C34_PartialSynthesisDefaults ==
    (ret # Null /\ args.kind = "stage3" /\ args.r.kind = "invalid") =>
        /\ ret.complete
        /\ Len(ret.errors) = 1
        /\ ret.errors[1].recoverable
        /\ ret.synthesis.reached = (args.r.raw.reached = "true")
        /\ ret.synthesis.position = ""
        /\ ret.synthesis.issues = ArrayLen(args.r.raw.issues)
        /\ ret.synthesis.dissent = ArrayLen(args.r.raw.dissent)

\* consensus.reached is the string "no" and the synthesis says reached.
C34_MalformedReachedKept ==
    /\ ret # Null
    /\ args.kind = "stage3"
    /\ args.r.kind = "invalid"
    /\ args.r.raw.reached = "no"
    /\ ret.synthesis.reached

\* The distinct values of ranking[0] among the reviews.
DistinctTopPicks(peerReviews) == {TopPick(peerReviews[k].ranking) : k \in DOMAIN peerReviews}

\* C35: with R reviews and U distinct top picks, rankingConsensus is strong
\* iff U = 1, otherwise moderate iff U <= R/2, otherwise weak iff U < R,
\* otherwise none.
C35_ConsensusTiers ==
    (ret # Null /\ args.kind = "stage2") =>
        LET R == Len(args.peerReviews)
            U == Cardinality(DistinctTopPicks(args.peerReviews))
        IN ret.rankingConsensus =
             IF U = 1 THEN "strong"
             ELSE IF 2 * U <= R THEN "moderate"
             ELSE IF U < R THEN "weak"
             ELSE "none"

\* C35 as the code computes it: moderate iff U <= R/2 rounded up, where a
\* review with an empty ranking has the top pick undefined.
C35_ConsensusTiersRoundedUp ==
    (ret # Null /\ args.kind = "stage2") =>
        LET R == Len(args.peerReviews)
            U == Cardinality(DistinctTopPicks(args.peerReviews))
        IN ret.rankingConsensus =
             IF U = 1 THEN "strong"
             ELSE IF 2 * U <= R + 1 THEN "moderate"
             ELSE IF U < R THEN "weak"
             ELSE "none"

\* Three reviews with two distinct top picks: moderate.
C35_Witness ==
    /\ ret # Null
    /\ args.kind = "stage2"
    /\ Len(args.peerReviews) = 3
    /\ Cardinality(DistinctTopPicks(args.peerReviews)) = 2
    /\ ret.rankingConsensus = "moderate"

\* Every tier is produced.
C35_WeakReached == ret # Null /\ args.kind = "stage2" /\ ret.rankingConsensus = "weak"

\* The analyses that list the issue at least once.
Listers(analyses, issue) ==
    {k \in DOMAIN analyses :
        \E j \in DOMAIN analyses[k].structured.thresholdIssues.items :
            Normalized(analyses[k].structured.thresholdIssues.items[j]) = issue}

\* C36: a threshold-gap anomaly is raised for an issue iff more than half of
\* the analyses list it and at least one omits it, and its affected labels
\* are exactly the analyses that omit it.
C36_ThresholdGapIffMajority ==
    (ret # Null /\ args.kind = "cross-stage") =>
        LET n == Len(args.analyses) IN
          /\ \A issue \in {Normalized(x) : x \in IssueNames} :
                (\E g \in DOMAIN ret.anomalies : ret.anomalies[g].issue = issue)
                    <=> /\ 2 * Cardinality(Listers(args.analyses, issue)) > n
                        /\ Cardinality(Listers(args.analyses, issue)) < n
          /\ \A g \in DOMAIN ret.anomalies :
                Range(ret.anomalies[g].affectedModels) =
                    {args.analyses[k].label :
                        k \in (1..n) \ Listers(args.analyses, ret.anomalies[g].issue)}

\* Two analyses, one lists the issue and one omits it: the anomaly is raised.
C36_RaisedByHalf ==
    /\ ret # Null
    /\ args.kind = "cross-stage"
    /\ Len(args.analyses) = 2
    /\ \E g \in DOMAIN ret.anomalies :
         Cardinality(Listers(args.analyses, ret.anomalies[g].issue)) = 1

\* Three analyses, one lists the issue twice and two omit it: the anomaly is raised.
C36_RaisedByRepeats ==
    /\ ret # Null
    /\ args.kind = "cross-stage"
    /\ Len(args.analyses) = 3
    /\ \E g \in DOMAIN ret.anomalies :
         Cardinality(Listers(args.analyses, ret.anomalies[g].issue)) = 1

\* C37: for every Stage 1 member in the audit, retries equals the number of
\* retries performed for the member's model call, and a retry-excessive
\* warning is raised for exactly the members with at least 2 retries.
C37_RetriesAudited ==
    (ret # Null /\ args.kind = "retry" /\ ret.audit # Null) =>
        /\ \A j \in DOMAIN ret.audit.perModelMetrics :
              \A k \in DOMAIN ret.metrics :
                  ret.metrics[k].modelId = ret.audit.perModelMetrics[j].modelId
                      => ret.audit.perModelMetrics[j].retries = ret.performed[k]
        /\ {ret.audit.anomalies[j].affectedModels[1] : j \in DOMAIN ret.audit.anomalies}
               = {ModelIds[k] : k \in {i \in DOMAIN ret.performed : ret.performed[i] >= 2}}

\* A member answered at its third attempt; the audit says 0 retries and
\* raises no warning.
C37_RetriesNotCounted ==
    /\ ret # Null
    /\ args.kind = "retry"
    /\ ret.audit # Null
    /\ ret.metrics[1].success
    /\ ret.performed[1] = 2
    /\ ret.audit.perModelMetrics[1].retries = 0
    /\ ret.audit.anomalies = <<>>

\* C38: when two deliberate() calls on one orchestrator overlap, each result's
\* _audit.sessionId is its own sessionId, and its _audit and _usage hold only
\* what its own session's tasks recorded.
C38_SessionsIsolated ==
    args.kind = "sessions" =>
        \A id \in SessionIds :
            ret.result[id] # Null =>
                /\ ret.result[id].audit.sessionId = ret.result[id].sessionId
                /\ \A k \in DOMAIN ret.result[id].audit.records : ret.result[id].audit.records[k] = id
                /\ \A k \in DOMAIN ret.result[id].usage.records : ret.result[id].usage.records[k] = id

\* Session s1 returns the audit of s2, which holds a record of each session.
C38_AuditOfOtherSession ==
    /\ args.kind = "sessions"
    /\ ret.result["s1"] # Null
    /\ ret.result["s1"].audit.sessionId = "s2"
    /\ \E j, k \in DOMAIN ret.result["s1"].usage.records :
          ret.result["s1"].usage.records[j] = "s1" /\ ret.result["s1"].usage.records[k] = "s2"

\* The sum of a sequence of token counts.
RECURSIVE SumUsage(_)
SumUsage(usages) ==
    IF usages = <<>> THEN TokenUsage(0, 0, 0) ELSE AddUsage(Head(usages), SumUsage(Tail(usages)))

\* C39: after any sequence of recordUsage calls, the tracker's totals equal
\* the sum of the three per-stage totals and the sum of the per-model totals,
\* the per-model call counts add up to the number of calls, and every call
\* without usage data added 500 prompt, 1000 completion and 1500 total tokens.
C39_UsageTotalsConsistent ==
    args.kind = "usage" =>
        LET session == ret.session IN
          /\ session.totals = SumUsage(session.byStage)
          /\ session.totals = SumUsage([k \in DOMAIN session.byModel |-> session.byModel[k].usage])
          /\ Sum([k \in DOMAIN session.byModel |-> session.byModel[k].calls]) = ret.recorded
          /\ session.totals = AddUsage(ret.given,
                                       TokenUsage(500 * ret.estimated, 1000 * ret.estimated,
                                                  1500 * ret.estimated))
          /\ \A j, k \in DOMAIN session.byModel :
                session.byModel[j].modelId = session.byModel[k].modelId => j = k

\* Four calls for two models in three stages, one of them without usage data.
C39_Witness ==
    /\ args.kind = "usage"
    /\ ret.recorded = MaxRecords
    /\ ret.estimated = 1
    /\ Len(ret.session.byModel) = 2
    /\ \E k \in DOMAIN ret.session.byModel : ret.session.byModel[k].calls = 3
    /\ \A stage \in 1..3 : ret.session.byStage[stage].totalTokens > 0

\* The calls, turns and errors of every member's loop.
C40_LoopBounded ==
    args.kind = "agent-loop" =>
        \A i \in DOMAIN ret.members :
            LET m == ret.members[i] IN
              /\ m.calls <= maxTurns
              /\ m.pc = "returned" => m.calls = m.turn + 1
              /\ m.pc \in {"query", "tool"} => m.calls = m.turn + 1 /\ m.turn < maxTurns
              /\ m.thrown = "Agent loop exceeded max turns" <=> m.turn = maxTurns
              /\ m.turn = maxTurns => m.pc = "failed" /\ m.calls = maxTurns
              /\ m.pc = "failed" <=>
                    \E k \in DOMAIN ret.errors :
                        ret.errors[k] = StageError(1, ModelIds[i], m.thrown, TRUE)

\* What a step of a member's loop changes.
C40_LoopSteps ==
    args.kind = "agent-loop" =>
        \A i \in DOMAIN ret.members :
            LET m == ret.members[i]
                n == ret'.members[i]
            IN /\ (m.pc = "tool" /\ n.toolErrors > m.toolErrors)
                     => \/ n.pc \in {"query", "tool"}
                        \/ n.thrown = "Agent loop exceeded max turns"
               /\ m # n => \A j \in DOMAIN ret.members : j # i => ret'.members[j] = ret.members[j]
               /\ m.pc \in {"returned", "failed"} => n = m
====
